---- MODULE Spec2Model ----
(***************************************************************************)
(* A model of tasm-lib's core: the Library (linker) with its static        *)
(* allocator, the dynamic allocator snippet DynMalloc as the instruction   *)
(* list it generates, and the equivalence oracle of test_helpers.rs.       *)
(*                                                                         *)
(* Words are elements of the field of order FieldP.  The real machine has  *)
(* 32-bit native words and p = 2^64 - 2^32 + 1; TLC's integers are 32 bit, *)
(* so the native width is WordBits and p = 2^(2w) - 2^w + 1: the relation  *)
(* between the native range and the field is the machine's.                *)
(***************************************************************************)
EXTENDS Integers, Sequences, FiniteSets, TLC

\* ------------------------------------------------------------ bounds
WordBits == 4
MaxAllocs == 3
MaxStaticWords == 3
MaxRequests == 3
MaxTailLen == 1
MaxAddress == 2
MaxInvocations == 2
MaxListLen == 2

\* ------------------------------------------------------------ program constants
DIGEST_LENGTH == 5
MAX_MMR_HEIGHT == 64
TestPreallocated == 65

U32Range == 2 ^ WordBits
FieldP == 2 ^ (2 * WordBits) - 2 ^ WordBits + 1

VARIABLES
    \* one execution of a linked program (DynMalloc)
    memory,        \* the RAM of one execution: a function from addresses to words
    seed,          \* words_statically_allocated the execution was started with
    std_in,        \* the public input not yet read
    calls,         \* the dyn_malloc calls of the execution, in order
    vm_status,     \* "running" | "aborted" | "idle"
    \* one Library (linker)
    import_table,  \* snippet identity -> label
    bodies,        \* the accumulator: identities whose body was emitted, in order
    free_pointer,  \* next free static word
    gen_stack,     \* the code generators in progress, innermost last
    returned,      \* the answered import requests, in order
    granted,       \* the answered allocate_static requests, in order
    lib_seed,      \* the pre-reserved words the Library was created for
    requests_made, \* number of requests the caller has issued itself
    body_code,     \* the accumulator: identity -> the instructions of its body
    program,       \* the instruction list linked for an isolated run (<<>>: none yet)
    \* one verification by the equivalence oracle
    snippet,       \* the declarations of the snippet under test
    init_stack,    \* the initial stack of the verification
    expected,      \* expected_final_stack: <<"None">> or <<"Some", stack>>
    rust,          \* the reference final state
    tasm,          \* the final state of the virtual machine
    verdict,       \* result of the current oracle: "none", "pass" or the failed check
    verdict_dep,   \* result of the deprecated oracle, likewise
    oracle_pc,     \* "idle" | "start" | "done"
    \* several verifications at once
    verifications, \* verification -> its arguments, position, Library and verdict
    clones         \* clone -> the working copies of stack and memory

mallocVars == <<memory, seed, std_in, calls, vm_status>>

libVars == <<import_table, bodies, free_pointer, gen_stack, returned, granted,
             lib_seed, requests_made, body_code, program>>

oracleVars == <<snippet, init_stack, expected, rust, tasm, verdict, verdict_dep, oracle_pc,
                verifications, clones>>

vars == <<mallocVars, libVars, oracleVars>>

NoSnippet ==
    [id |-> "none", T |-> "none", origin |-> "none", stack_diff |-> 0,
     inputs |-> <<>>, outputs |-> <<>>, input_names |-> 0, output_names |-> 0]

NoState == [output |-> <<>>, final_stack |-> <<>>, final_ram |-> [a \in {} |-> 0],
            final_sponge_state |-> 0]

IdleOracle ==
    /\ snippet = NoSnippet
    /\ init_stack = <<>>
    /\ expected = <<"None">>
    /\ rust = NoState
    /\ tasm = NoState
    /\ verdict = "none"
    /\ verdict_dep = "none"
    /\ oracle_pc = "idle"
    /\ verifications = <<>>
    /\ clones = <<>>

IdleMalloc ==
    /\ memory = [a \in {} |-> 0]
    /\ seed = 0
    /\ std_in = <<>>
    /\ calls = <<>>
    /\ vm_status = "idle"

IdleLib ==
    /\ import_table = [a \in {} |-> ""]
    /\ bodies = <<>>
    /\ free_pointer = 0
    /\ gen_stack = <<>>
    /\ returned = <<>>
    /\ granted = <<>>
    /\ lib_seed = 0
    /\ requests_made = 0
    /\ body_code = [a \in {} |-> <<>>]
    /\ program = <<>>

\* ------------------------------------------------------------ helpers
EmptyMemory == [a \in {} |-> 0]

RECURSIVE SumSeq(_)
SumSeq(s) == IF s = <<>> THEN 0 ELSE s[1] + SumSeq(Tail(s))

\* ------------------------------------------------------------ the machine
\* A machine state: the operand stack (top = last element, as the Vec of the
\* test harness), the RAM and whether no assert has failed.
ReadMem(mem, a) == IF a \in DOMAIN mem THEN mem[a] ELSE 0

WriteMem(mem, a, v) == [x \in (DOMAIN mem) \cup {a} |-> IF x = a THEN v ELSE mem[x]]

Top(st) == st[Len(st)]

Pop(st) == SubSeq(st, 1, Len(st) - 1)

Dup(st, i) == Append(st, st[Len(st) - i])

Swap(st, i) ==
    [k \in 1..Len(st) |->
        IF k = Len(st) THEN st[Len(st) - i]
        ELSE IF k = Len(st) - i THEN st[Len(st)]
        ELSE st[k]]

I(op, arg) == [op |-> op, arg |-> arg]

\* One instruction, with the stack effect the comments of the snippets state.
Exec(ins, vm) ==
    LET st == vm.stack IN
    CASE ins.op = "push" -> [vm EXCEPT !.stack = Append(st, ins.arg % FieldP)]
      [] ins.op = "pop" -> [vm EXCEPT !.stack = Pop(st)]
      [] ins.op = "dup" -> [vm EXCEPT !.stack = Dup(st, ins.arg)]
      [] ins.op = "swap" -> [vm EXCEPT !.stack = Swap(st, ins.arg)]
      [] ins.op = "read_mem" -> [vm EXCEPT !.stack = Append(st, ReadMem(vm.mem, Top(st)))]
      [] ins.op = "write_mem" ->
            [vm EXCEPT !.stack = Pop(st),
                       !.mem = WriteMem(vm.mem, st[Len(st) - 1], Top(st))]
      [] ins.op = "eq" ->
            [vm EXCEPT !.stack =
                Append(Pop(Pop(st)), IF Top(st) = st[Len(st) - 1] THEN 1 ELSE 0)]
      [] ins.op = "add" ->
            [vm EXCEPT !.stack = Append(Pop(Pop(st)), (Top(st) + st[Len(st) - 1]) % FieldP)]
      [] ins.op = "mul" ->
            [vm EXCEPT !.stack = Append(Pop(Pop(st)), (Top(st) * st[Len(st) - 1]) % FieldP)]
      [] ins.op = "split" ->
            [vm EXCEPT !.stack =
                Append(Append(Pop(st), Top(st) \div U32Range), Top(st) % U32Range)]
      [] ins.op = "assert" -> [vm EXCEPT !.stack = Pop(st), !.ok = (Top(st) = 1)]
      [] OTHER -> vm

\* Straight-line execution of a body from instruction i up to its return; a
\* failed assert stops the machine.
RECURSIVE Run(_, _, _)
Run(code, i, vm) ==
    IF i > Len(code) \/ ~vm.ok \/ code[i].op = "return" THEN vm
    ELSE Run(code, i + 1, Exec(code[i], vm))

\* ------------------------------------------------------------ dyn_malloc.rs
DYN_MALLOC_ADDRESS == 0

\* Mutant: the initialization code stores one word too few.
get_initialization_code_off_by_one(malloc_init_value) ==
    IF malloc_init_value > 0
    THEN << I("push", DYN_MALLOC_ADDRESS), I("push", malloc_init_value - 1),
            I("write_mem", 0), I("pop", 0) >>
    ELSE << >>

get_initialization_code(malloc_init_value) ==
    IF malloc_init_value > 0
    THEN << I("push", DYN_MALLOC_ADDRESS), I("push", malloc_init_value),
            I("write_mem", 0), I("pop", 0) >>
    ELSE << >>

\* Mutant: the zero sentinel is not replaced by 1.
DynMalloc_function_code_no_sentinel ==
    << I("push", DYN_MALLOC_ADDRESS), I("read_mem", 0),
       I("dup", 0), I("dup", 3),
       I("split", 0), I("swap", 1), I("push", 0), I("eq", 0), I("assert", 0),
       I("add", 0),
       I("split", 0), I("swap", 1), I("push", 0), I("eq", 0), I("assert", 0),
       I("swap", 1), I("swap", 3), I("pop", 0), I("write_mem", 0), I("pop", 0),
       I("return", 0) >>

DynMalloc_function_code ==
    << I("push", DYN_MALLOC_ADDRESS), I("read_mem", 0),
       I("dup", 0), I("push", 0), I("eq", 0), I("add", 0),
       I("dup", 0), I("dup", 3),
       I("split", 0), I("swap", 1), I("push", 0), I("eq", 0), I("assert", 0),
       I("add", 0),
       I("split", 0), I("swap", 1), I("push", 0), I("eq", 0), I("assert", 0),
       I("swap", 1), I("swap", 3), I("pop", 0), I("write_mem", 0), I("pop", 0),
       I("return", 0) >>

\* The sizes a caller may put on the stack: the small counts (the tests ask
\* for 10 words), the counts around the end of the native range and the
\* largest field elements.
SizeInputs ==
    (0 .. 10) \cup ((U32Range - 4) .. (U32Range + 1)) \cup {FieldP - U32Range, FieldP - 1}

\* The allocator cell as the next call will see it (0 is read as 1).
EffectiveCell(mem) ==
    IF ReadMem(mem, DYN_MALLOC_ADDRESS) = 0 THEN 1 ELSE ReadMem(mem, DYN_MALLOC_ADDRESS)

InitMalloc ==
    /\ seed \in 0 .. MaxStaticWords
    /\ std_in = <<>>
    /\ \E zeroed \in BOOLEAN :
         memory = IF seed > 0
                  THEN Run(get_initialization_code(seed), 1,
                           [stack |-> <<>>, mem |-> EmptyMemory, ok |-> TRUE]).mem
                  ELSE IF zeroed THEN (DYN_MALLOC_ADDRESS :> 0) ELSE EmptyMemory
    /\ calls = <<>>
    /\ vm_status = "running"
    /\ IdleLib
    /\ IdleOracle

\* One `call tasm_memory_dyn_malloc` with `size` on top of the stack.
Allocate(size) ==
    /\ vm_status = "running"
    /\ Len(calls) < MaxAllocs
    /\ \E vm \in {Run(DynMalloc_function_code, 1,
                      [stack |-> <<size>>, mem |-> memory, ok |-> TRUE])} :
          /\ memory' = vm.mem
          /\ vm_status' = IF vm.ok THEN "running" ELSE "aborted"
          /\ calls' = Append(calls,
                [size |-> size, current |-> EffectiveCell(memory), ok |-> vm.ok,
                 base |-> IF vm.ok THEN Top(vm.stack) ELSE 0,
                 before |-> ReadMem(memory, DYN_MALLOC_ADDRESS),
                 after |-> ReadMem(vm.mem, DYN_MALLOC_ADDRESS)])
    /\ UNCHANGED <<seed, std_in, libVars, oracleVars>>

NextMalloc == \E size \in SizeInputs : Allocate(size)

SpecMalloc == InitMalloc /\ [][NextMalloc]_vars

\* ------------------------------------------------------------ allocator claims
Sizes(cs) == [k \in 1..Len(cs) |-> cs[k].size]

Bases(cs) == [k \in 1..Len(cs) |-> cs[k].base]

Granted == SelectSeq(calls, LAMBDA c : c.ok)

\* C3 as stated: for the successful allocate calls of one execution the bases
\* are strictly increasing, the ranges [base, base+size) are pairwise disjoint,
\* the allocator cell never decreases and is never the zero sentinel after a call.
C3_Original ==
    /\ \A i, j \in 1..Len(Granted) : i < j => Granted[i].base < Granted[j].base
    /\ \A i, j \in 1..Len(Granted) :
          i < j => Granted[i].base + Granted[i].size <= Granted[j].base
    /\ \A i \in 1..Len(Granted) : Granted[i].before <= Granted[i].after
    /\ \A i \in 1..Len(Granted) : Granted[i].after # 0

\* C3 amended: the bases never decrease and every later base lies at or past
\* the end of every earlier range (so a base repeats only after calls of size
\* 0, and is strictly larger after any call of size >= 1); the ranges are
\* pairwise disjoint, the cell never decreases and is never 0 after a call.
C3_Amended ==
    /\ \A i, j \in 1..Len(Granted) : i < j => Granted[i].base <= Granted[j].base
    /\ \A i, j \in 1..Len(Granted) :
          (i < j /\ Granted[i].size >= 1) => Granted[i].base < Granted[j].base
    /\ \A i, j \in 1..Len(Granted) :
          i < j => Granted[i].base + Granted[i].size <= Granted[j].base
    /\ \A i \in 1..Len(Granted) : Granted[i].before <= Granted[i].after
    /\ \A i \in 1..Len(Granted) : Granted[i].after # 0
    /\ Granted # <<>> => ReadMem(memory, DYN_MALLOC_ADDRESS) = Granted[Len(Granted)].after

C3_Witness ==
    /\ Len(Granted) = 3
    /\ Granted[1].size = 0
    /\ Granted[2].size > 0
    /\ Granted[1].base = Granted[2].base
    /\ Granted[2].base < Granted[3].base

\* C4: from an unset or zero cell, successful calls with sizes s1..sn return
\* 1, 1+s1, 1+s1+s2, ... and leave the cell at 1+s1+...+sn (sizes [10, 1]:
\* bases [1, 11], cell 12); from a cell seeded with N > 0 the first call
\* returns N.
C4_BasesFromEmpty ==
    /\ seed = 0 =>
          /\ \A i \in 1..Len(Granted) :
                Granted[i].base = 1 + SumSeq(SubSeq(Sizes(Granted), 1, i - 1))
          /\ Granted # <<>> =>
                ReadMem(memory, DYN_MALLOC_ADDRESS) = 1 + SumSeq(Sizes(Granted))
          /\ Sizes(Granted) = <<10, 1>> =>
                /\ Bases(Granted) = <<1, 11>>
                /\ ReadMem(memory, DYN_MALLOC_ADDRESS) = 12
    /\ (seed > 0 /\ Granted # <<>>) => Granted[1].base = seed

C4_Witness ==
    /\ seed = 0
    /\ Sizes(Granted) = <<10, 1>>
    /\ Bases(Granted) = <<1, 11>>
    /\ memory[DYN_MALLOC_ADDRESS] = 12

\* The values the allocator cell may hold when a call begins, written by
\* whoever wrote address 0 last: unset, the zero sentinel, small addresses,
\* the ends of the native range and the largest field elements.
CellValues ==
    {0, 1, U32Range - 1, U32Range, FieldP - U32Range, FieldP - 2, FieldP - 1}

InitMallocAnyCell ==
    /\ seed = 0
    /\ std_in = <<>>
    /\ \E unset \in BOOLEAN, cell \in CellValues :
         memory = IF unset THEN EmptyMemory ELSE (DYN_MALLOC_ADDRESS :> cell)
    /\ calls = <<>>
    /\ vm_status = "running"
    /\ IdleLib
    /\ IdleOracle

SpecMallocAnyCell == InitMallocAnyCell /\ [][NextMalloc]_vars

\* C18 as stated: whatever field element the allocator cell holds and whatever
\* size is asked for, a call either aborts, leaving the cell unwritten, or
\* returns the effective old cell value (1 for 0) and leaves the cell at
\* base + size, the sum taken without modular wrap-around and below 2^32.
C18_NoWrapAround ==
    \A k \in 1..Len(calls) :
        /\ calls[k].ok =>
              /\ calls[k].base = calls[k].current
              /\ calls[k].after = calls[k].base + calls[k].size
              /\ calls[k].after < U32Range
        /\ ~calls[k].ok => calls[k].after = calls[k].before

\* What the code does guarantee: the new cell value is below 2^32 and is
\* base + size modulo the field prime, which is base + size itself whenever
\* the old cell value was in the native range.
C18_ModularSum ==
    \A k \in 1..Len(calls) :
        /\ calls[k].ok =>
              /\ calls[k].base = calls[k].current
              /\ calls[k].after = (calls[k].base + calls[k].size) % FieldP
              /\ calls[k].after < U32Range
              /\ calls[k].current < U32Range =>
                    calls[k].after = calls[k].base + calls[k].size
        /\ ~calls[k].ok => calls[k].after = calls[k].before

\* C5 as stated: a call aborts when current + size exceeds 2^32 (the native
\* range) and succeeds when current + size is exactly 2^32.
C5_Boundary ==
    \A i \in 1..Len(calls) :
        /\ calls[i].current + calls[i].size > U32Range => ~calls[i].ok
        /\ calls[i].current + calls[i].size = U32Range => calls[i].ok

\* What the code does at the boundary: it succeeds exactly when
\* size and current + size are both below 2^32.
C5_CodeBoundary ==
    \A i \in 1..Len(calls) :
        calls[i].ok <=>
            (calls[i].size < U32Range /\ calls[i].current + calls[i].size < U32Range)

\* ------------------------------------------------------------ the Library
\* Snippet identities are the entrypoint names.
RightChildAndHeight == "tasm_mmr_right_child_and_height"
LeftMostAncestor == "tasm_mmr_leftmost_ancestor"
GetHeightFromDataIndex == "tasm_mmr_get_height_from_leaf_index"
UnsafeNewId == "tasm_list_unsafeimplu32_new"
DynMallocId == "tasm_memory_dyn_malloc"
CalculateNewPeaksFromAppend == "calculate_new_peaks_from_append"
EqU64 == "tasm_arithmetic_u64_eq"
LtU64 == "tasm_arithmetic_u64_lt"
DecrU64 == "tasm_arithmetic_u64_decr"
IncrU64 == "tasm_arithmetic_u64_incr"
Pow2U64 == "tasm_arithmetic_u64_pow2"
Log2FloorU64 == "tasm_arithmetic_u64_log_2_floor"
MmrLeftChild == "tasm_mmr_left_child"
MmrRightChild == "tasm_mmr_right_child"
DataIndexToNodeIndex == "data_index_to_node_index"
MmrRightAncestorCountAndHeight == "right_ancestor_count_and_own_height"
ListPush == "push_u32_5"
ListPop == "pop_u32_5"
SetLength == "set_length"
AndU64 == "tasm_arithmetic_u64_and"
AddU64 == "tasm_arithmetic_u64_add"
NonLeafNodesLeftId == "non_leaf_nodes_left"

Imp(id) == [kind |-> "import", id |-> id, words |-> 0]

Kmalloc(words) == [kind |-> "kmalloc", id |-> "", words |-> words]

\* Snippets whose generator asks for its own identity, directly or through
\* another snippet (the "self-recursive or mutually recursive snippets" of the
\* Library's import protocol); none of the snippets at hand does.
SelfRecursive == "self_recursive"
MutualA == "mutual_a"
MutualB == "mutual_b"

RecursiveSnippets == {SelfRecursive, MutualA, MutualB}

RecursiveRequests(id) ==
    CASE id = SelfRecursive -> << Imp(DecrU64), Imp(SelfRecursive), Kmalloc(1) >>
      [] id = MutualA -> << Imp(MutualB), Imp(MutualA) >>
      [] id = MutualB -> << Imp(MutualA), Imp(IncrU64) >>
      [] OTHER -> << >>

\* What the code generator of a snippet asks of the Library, in order.  The
\* generators of the other identities are not part of the sources at hand;
\* they are leaves here.
Requests(id) ==
    CASE id = RightChildAndHeight ->
            << Imp(EqU64), Imp(LtU64), Imp(MmrLeftChild), Imp(MmrRightChild),
               Imp(LeftMostAncestor) >>
      [] id = LeftMostAncestor -> << Imp(DecrU64), Imp(Pow2U64), Imp(Log2FloorU64) >>
      [] id = GetHeightFromDataIndex -> << Imp(IncrU64), Imp(Log2FloorU64) >>
      [] id = UnsafeNewId -> << Imp(DynMallocId) >>
      [] id = NonLeafNodesLeftId ->
            << Imp(Log2FloorU64), Imp(Pow2U64), Imp(AndU64), Imp(EqU64), Imp(DecrU64),
               Imp(IncrU64), Imp(AddU64) >>
      [] id = CalculateNewPeaksFromAppend ->
            << Imp(DataIndexToNodeIndex), Imp(MmrRightAncestorCountAndHeight),
               Imp(ListPush), Imp(ListPop), Imp(SetLength),
               Kmalloc(DIGEST_LENGTH * MAX_MMR_HEIGHT) >>
      [] id \in RecursiveSnippets -> RecursiveRequests(id)
      [] OTHER -> << >>

\* The snippets a caller imports itself, and the word counts it asks for.
DirectSnippets ==
    { RightChildAndHeight, LeftMostAncestor, GetHeightFromDataIndex, UnsafeNewId,
      NonLeafNodesLeftId, CalculateNewPeaksFromAppend, DecrU64, Log2FloorU64,
      DynMallocId }

StaticSizes == { 0, 1, DIGEST_LENGTH * MAX_MMR_HEIGHT }

\* Mutant: the Library is created without the pre-reserved words.
with_preallocated_memory_ignored(words_statically_allocated) == 0

\* link_for_isolated_run: Library::with_preallocated_memory(words).
with_preallocated_memory(words_statically_allocated) == words_statically_allocated

\* Mutant: an identity counts as known only once its body has been emitted,
\* as if the label were recorded after the generator had run.
is_new_dependency_until_emitted(table, id) == \A k \in 1..Len(bodies) : bodies[k] # id

\* Mutant: every request is treated as a new dependency.
is_new_dependency_always(table, id) == TRUE

is_new_dependency(table, id) == id \notin DOMAIN table

InitLib ==
    /\ lib_seed \in {0, 1, TestPreallocated}
    /\ free_pointer = with_preallocated_memory(lib_seed)
    /\ import_table = [a \in {} |-> ""]
    /\ bodies = <<>>
    /\ gen_stack = <<>>
    /\ returned = <<>>
    /\ granted = <<>>
    /\ requests_made = 0
    /\ body_code = [a \in {} |-> <<>>]
    /\ program = <<>>
    /\ IdleMalloc
    /\ IdleOracle

\* A code generator at its start: nothing requested yet, its body holds the
\* entrypoint label.
NewGenerator(id, by) == [id |-> id, pc |-> 1, by |-> by, code |-> << I("label", id) >>]

\* The innermost generator writes an instruction into its body.
Emit(stack, ins) == [stack EXCEPT ![Len(stack)].code = Append(@, ins)]

Requester(stack) == IF stack = <<>> THEN "caller" ELSE stack[Len(stack)].id

\* import(snippet), asked by `by`, with `stack` the generators in progress: a
\* known identity is answered from the table; a new one gets its label
\* recorded and its generator started.
import(id, by, stack) ==
    IF is_new_dependency(import_table, id)
    THEN /\ import_table' = (id :> id) @@ import_table
         /\ gen_stack' = Append(stack, NewGenerator(id, by))
         /\ UNCHANGED returned
    ELSE /\ returned' = Append(returned, [id |-> id, label |-> import_table[id], by |-> by])
         /\ gen_stack' = stack
         /\ UNCHANGED import_table

\* allocate_static / kmalloc(words), asked by `by`.
kmalloc(words, by) ==
    /\ granted' = Append(granted, [addr |-> free_pointer, words |-> words, by |-> by])
    /\ free_pointer' = free_pointer + words

\* The caller imports a snippet.
CallerImport(id) ==
    /\ gen_stack = <<>>
    /\ requests_made < MaxRequests
    /\ requests_made' = requests_made + 1
    /\ import(id, "caller", gen_stack)
    /\ UNCHANGED <<bodies, free_pointer, granted, lib_seed, body_code, program,
                   mallocVars, oracleVars>>

\* The caller asks for static memory.
CallerKmalloc(words) ==
    /\ gen_stack = <<>>
    /\ requests_made < MaxRequests
    /\ requests_made' = requests_made + 1
    /\ kmalloc(words, "caller")
    /\ UNCHANGED <<import_table, bodies, gen_stack, returned, lib_seed, body_code, program,
                   mallocVars, oracleVars>>

NextRequest(frame) == Requests(frame.id)[frame.pc]

Advanced(stack) == [stack EXCEPT ![Len(stack)].pc = @ + 1]

\* The innermost generator in progress imports its next dependency.
GeneratorImport ==
    /\ gen_stack # <<>>
    /\ LET frame == gen_stack[Len(gen_stack)] IN
         /\ frame.pc <= Len(Requests(frame.id))
         /\ NextRequest(frame).kind = "import"
         /\ import(NextRequest(frame).id, frame.id,
                   Emit(Advanced(gen_stack), I("call", NextRequest(frame).id)))
    /\ UNCHANGED <<bodies, free_pointer, granted, lib_seed, requests_made, body_code, program,
                   mallocVars, oracleVars>>

\* The innermost generator in progress asks for static memory.
GeneratorKmalloc ==
    /\ gen_stack # <<>>
    /\ LET frame == gen_stack[Len(gen_stack)] IN
         /\ frame.pc <= Len(Requests(frame.id))
         /\ NextRequest(frame).kind = "kmalloc"
         /\ kmalloc(NextRequest(frame).words, frame.id)
         /\ gen_stack' = Emit(Advanced(gen_stack), I("push", free_pointer))
    /\ UNCHANGED <<import_table, bodies, returned, lib_seed, requests_made, body_code, program,
                   mallocVars, oracleVars>>

RECURSIVE Flatten(_)
Flatten(seqs) == IF seqs = <<>> THEN <<>> ELSE seqs[1] \o Flatten(Tail(seqs))

\* Library::all_imports: the accumulated bodies, in the order they were added.
all_imports == Flatten([k \in 1..Len(bodies) |-> body_code[bodies[k]]])

\* Mutant: the imported bodies are left out of the linked program.
link_for_isolated_run_without_imports(entrypoint, function_body, library_code) ==
    << I("call", entrypoint), I("halt", 0) >> \o function_body

\* link_for_isolated_run: call {entrypoint}, halt, {function_body}, {library_code}
link_for_isolated_run(entrypoint, function_body, library_code) ==
    << I("call", entrypoint), I("halt", 0) >> \o function_body \o library_code

\* The innermost generator returns its body.  The body of an imported snippet
\* is appended to the accumulator and the import that started the generator
\* is answered; the body of the snippet being linked completes the link.
GeneratorReturn ==
    /\ gen_stack # <<>>
    /\ LET frame == gen_stack[Len(gen_stack)]
           body == Append(frame.code, I("return", 0))
       IN
         /\ frame.pc > Len(Requests(frame.id))
         /\ IF frame.by = "link"
            THEN /\ program' = link_for_isolated_run(frame.id, body, all_imports)
                 /\ UNCHANGED <<bodies, body_code, returned>>
            ELSE /\ bodies' = Append(bodies, frame.id)
                 /\ body_code' = (frame.id :> body) @@ body_code
                 /\ returned' = Append(returned,
                        [id |-> frame.id, label |-> import_table[frame.id], by |-> frame.by])
                 /\ UNCHANGED program
         /\ gen_stack' = SubSeq(gen_stack, 1, Len(gen_stack) - 1)
    /\ UNCHANGED <<import_table, free_pointer, granted, lib_seed, requests_made,
                   mallocVars, oracleVars>>

\* link_for_isolated_run on a fresh Library: the snippet's code generator is
\* called directly, not through import.
LinkForIsolatedRun(id) ==
    /\ gen_stack = <<>>
    /\ program = <<>>
    /\ import_table = [a \in {} |-> ""]
    /\ gen_stack' = << NewGenerator(id, "link") >>
    /\ UNCHANGED <<import_table, bodies, free_pointer, returned, granted, lib_seed,
                   requests_made, body_code, program, mallocVars, oracleVars>>

NextLib ==
    \/ \E id \in DirectSnippets : CallerImport(id)
    \/ \E words \in StaticSizes : CallerKmalloc(words)
    \/ GeneratorImport
    \/ GeneratorKmalloc
    \/ GeneratorReturn

SpecLib == InitLib /\ [][NextLib]_vars

\* --- the Library importing snippets that ask for themselves
NextRecursive ==
    \/ \E id \in RecursiveSnippets \cup {DecrU64} : CallerImport(id)
    \/ GeneratorImport
    \/ GeneratorKmalloc
    \/ GeneratorReturn

GeneratorStep == GeneratorImport \/ GeneratorKmalloc \/ GeneratorReturn

\* A code generator is sequential code that runs to its end once started.
SpecRecursive == InitLib /\ [][NextRecursive]_vars /\ WF_vars(GeneratorStep)

\* --- linking one snippet for an isolated run
NextAssemble ==
    \/ \E id \in DirectSnippets : LinkForIsolatedRun(id)
    \/ GeneratorImport
    \/ GeneratorKmalloc
    \/ GeneratorReturn

SpecAssemble == InitLib /\ [][NextAssemble]_vars

\* The same link as one computation: the generator of `id` from its k-th
\* request on, with the body written so far and the Library lib.
RECURSIVE generate(_, _, _, _)
generate(id, k, body, lib) ==
    IF k > Len(Requests(id))
    THEN [body |-> Append(body, I("return", 0)), lib |-> lib]
    ELSE LET req == Requests(id)[k] IN
         IF req.kind = "kmalloc"
         THEN generate(id, k + 1, Append(body, I("push", lib.free_pointer)),
                       [lib EXCEPT !.free_pointer = @ + req.words])
         ELSE IF req.id \in lib.seen
         THEN generate(id, k + 1, Append(body, I("call", req.id)), lib)
         ELSE LET sub == generate(req.id, 1, << I("label", req.id) >>,
                                  [lib EXCEPT !.seen = @ \cup {req.id}])
              IN generate(id, k + 1, Append(body, I("call", req.id)),
                          [sub.lib EXCEPT !.function_bodies = Append(@, sub.body)])

Linked(id, words_statically_allocated) ==
    LET g == generate(id, 1, << I("label", id) >>,
                      [seen |-> {}, function_bodies |-> <<>>,
                       free_pointer |-> with_preallocated_memory(words_statically_allocated)])
    IN << I("call", id), I("halt", 0) >> \o g.body \o Flatten(g.lib.function_bodies)

\* ------------------------------------------------------------ Library claims
BodyCount(id) == Cardinality({k \in 1..Len(bodies) : bodies[k] = id})

\* C1: however the import requests are issued (by the caller or by another
\* snippet's generator), each identity has at most one body, exactly one once
\* its import has returned, and all requests for one identity get one label.
C1_Dedup ==
    /\ \A k \in 1..Len(bodies) : BodyCount(bodies[k]) = 1
    /\ \A k \in 1..Len(returned) : BodyCount(returned[k].id) = 1
    /\ gen_stack = <<>> => \A id \in DOMAIN import_table : BodyCount(id) = 1
    /\ \A i, j \in 1..Len(returned) :
          returned[i].id = returned[j].id => returned[i].label = returned[j].label

\* The u64 helper imported directly and through MmrLeftMostAncestor inside
\* MmrRightChildAndHeight.
C1_Witness ==
    /\ gen_stack = <<>>
    /\ \E i, j, k \in 1..Len(returned) :
          /\ returned[i] = [id |-> DecrU64, label |-> DecrU64, by |-> "caller"]
          /\ returned[j] = [id |-> DecrU64, label |-> DecrU64, by |-> LeftMostAncestor]
          /\ returned[k] = [id |-> LeftMostAncestor, label |-> LeftMostAncestor,
                            by |-> RightChildAndHeight]
    /\ BodyCount(DecrU64) = 1

Running(id) == {k \in 1..Len(gen_stack) : gen_stack[k].id = id}

\* C11: an import of a snippet whose generator asks (directly or through other
\* snippets) for its own identity terminates: the label is in the table while
\* the generator runs, no generator is started a second time, the request from
\* inside gets the label, and when the import is over there is exactly one
\* body for the identity.
C11_RecursiveImportTerminates ==
    /\ [](\A k \in 1..Len(gen_stack) :
             /\ gen_stack[k].id \in DOMAIN import_table
             /\ Cardinality(Running(gen_stack[k].id)) = 1
             /\ BodyCount(gen_stack[k].id) = 0)
    /\ [](\A k \in 1..Len(returned) : returned[k].label = import_table[returned[k].id])
    /\ [](\A k \in 1..Len(bodies) : BodyCount(bodies[k]) = 1)
    /\ [](gen_stack = <<>> => \A id \in DOMAIN import_table : BodyCount(id) = 1)
    /\ []<>(gen_stack = <<>>)

\* MutualA asked for MutualB, whose generator asked for MutualA and was
\* answered with the label while MutualA's generator was still running; both
\* imports are over.
C11_Witness ==
    /\ gen_stack = <<>>
    /\ \E i, j \in 1..Len(returned) :
          /\ i < j
          /\ returned[i] = [id |-> MutualA, label |-> MutualA, by |-> MutualB]
          /\ returned[j] = [id |-> MutualA, label |-> MutualA, by |-> "caller"]
    /\ \E k \in 1..Len(returned) :
          returned[k] = [id |-> SelfRecursive, label |-> SelfRecursive, by |-> SelfRecursive]
    /\ BodyCount(MutualA) = 1
    /\ BodyCount(MutualB) = 1
    /\ BodyCount(SelfRecursive) = 1

Definitions(prog, label) == {k \in 1..Len(prog) : prog[k] = I("label", label)}

GrantedWords(n) == [k \in 1..n |-> granted[k].words]

\* C2: the i-th allocate_static call returns N + w1 + ... + w(i-1), N being
\* the pre-reserved words; the ranges are pairwise disjoint and increasing;
\* with 65 pre-reserved words the first address granted is 65.
C2_StaticAddresses ==
    /\ \A i \in 1..Len(granted) :
          granted[i].addr = lib_seed + SumSeq(GrantedWords(i - 1))
    /\ \A i, j \in 1..Len(granted) :
          i < j => granted[i].addr + granted[i].words <= granted[j].addr
    /\ free_pointer = lib_seed + SumSeq(GrantedWords(Len(granted)))
    /\ (lib_seed = TestPreallocated /\ granted # <<>>) => granted[1].addr = 65

C2_Witness ==
    /\ lib_seed = TestPreallocated
    /\ Len(granted) >= 2
    /\ granted[1] = [addr |-> 65, words |-> DIGEST_LENGTH * MAX_MMR_HEIGHT,
                     by |-> CalculateNewPeaksFromAppend]
    /\ granted[2].addr = 65 + DIGEST_LENGTH * MAX_MMR_HEIGHT

\* ------------------------------------------------------------ snippet declarations
SafePopId == "tasm_list_safeimplu32_pop"
LengthId == "tasm_list_safeimplu32_length"
ReadStdInId == "tasm_io_read_stdin"
ShiftRightU64Id == "tasm_arithmetic_u64_shift_right"

ElementTypes == {"Bool", "U32", "U64", "BFE", "XFE", "Digest"}

\* DataType::get_size: the words a value of the type takes on the stack (a
\* list is its pointer).
get_size(data_type) ==
    CASE data_type = "U64" -> 2
      [] data_type = "XFE" -> 3
      [] data_type = "Digest" -> DIGEST_LENGTH
      [] OTHER -> 1

SumSizes(types) == SumSeq([k \in 1..Len(types) |-> get_size(types[k])])

Plain == {DynMallocId, RightChildAndHeight, LeftMostAncestor, GetHeightFromDataIndex,
          ShiftRightU64Id, NonLeafNodesLeftId}

Parametrized == {SafePopId, LengthId, ReadStdInId, UnsafeNewId}

Catalog ==
    {[id |-> id, T |-> "none"] : id \in Plain}
        \cup {[id |-> id, T |-> T] : id \in Parametrized, T \in ElementTypes}

input_types(s) ==
    CASE s.id = DynMallocId -> <<"U32">>
      [] s.id = UnsafeNewId -> <<"U32">>
      [] s.id \in {SafePopId, LengthId} -> <<"List">>
      [] s.id = ReadStdInId -> <<>>
      [] s.id = ShiftRightU64Id -> <<"U64", "U32">>
      [] OTHER -> <<"U64">>

output_types(s) ==
    CASE s.id \in {DynMallocId, LengthId, GetHeightFromDataIndex} -> <<"U32">>
      [] s.id = UnsafeNewId -> <<"List">>
      [] s.id \in {SafePopId, ReadStdInId} -> <<s.T>>
      [] s.id = RightChildAndHeight -> <<"Bool", "U32">>
      [] s.id = LeftMostAncestor -> <<"U64", "U32">>
      [] OTHER -> <<"U64">>

\* Mutant: SafePop forgets the list pointer it consumes.
stack_diff_pop_keeps_pointer(s) ==
    CASE s.id = SafePopId -> get_size(s.T)
      [] s.id = ReadStdInId -> get_size(s.T)
      [] s.id = LeftMostAncestor -> 1
      [] s.id \in {GetHeightFromDataIndex, ShiftRightU64Id} -> -1
      [] OTHER -> 0

stack_diff(s) ==
    CASE s.id = SafePopId -> get_size(s.T) - 1
      [] s.id = ReadStdInId -> get_size(s.T)
      [] s.id = LeftMostAncestor -> 1
      [] s.id \in {GetHeightFromDataIndex, ShiftRightU64Id} -> -1
      [] OTHER -> 0

\* The number of input and of output field names.
input_field_names(s) ==
    CASE s.id = ReadStdInId -> 0
      [] s.id \in {DynMallocId, UnsafeNewId, SafePopId, LengthId} -> 1
      [] s.id = ShiftRightU64Id -> 3
      [] OTHER -> 2

output_field_names(s) ==
    CASE s.id \in {SafePopId, ReadStdInId} -> get_size(s.T)
      [] s.id \in {DynMallocId, UnsafeNewId, LengthId, GetHeightFromDataIndex} -> 1
      [] s.id = LeftMostAncestor -> 3
      [] OTHER -> 2

Declared(s) ==
    [id |-> s.id, T |-> s.T, origin |-> "catalog", stack_diff |-> stack_diff(s),
     inputs |-> input_types(s), outputs |-> output_types(s),
     input_names |-> input_field_names(s), output_names |-> output_field_names(s)]

\* Snippets as a faulty implementer could declare them: a stack_diff that is
\* off by one, or one field name for a value of several words.
Misdeclared(d) ==
    { [d EXCEPT !.origin = "misdeclared", !.stack_diff = @ + 1],
      [d EXCEPT !.origin = "misdeclared", !.stack_diff = @ - 1],
      [d EXCEPT !.origin = "misnamed", !.input_names = @ + 1] }

AllDeclarations ==
    {Declared(s) : s \in Catalog} \cup UNION {Misdeclared(Declared(s)) : s \in Catalog}

WidthDiff(d) == SumSizes(d.outputs) - SumSizes(d.inputs)

\* ------------------------------------------------------------ the oracle
RECURSIVE SeqsUpTo(_, _)
SeqsUpTo(S, n) ==
    IF n = 0 THEN {<<>>}
    ELSE LET shorter == SeqsUpTo(S, n - 1)
         IN shorter \cup {Append(q, x) : q \in {r \in shorter : Len(r) = n - 1}, x \in S}

\* Mutant: one word too few is taken for the program hash.
skip_program_hash_short(stack) == SubSeq(stack, DIGEST_LENGTH, Len(stack))

\* stack.iter().skip(DIGEST_LENGTH)
skip_program_hash(stack) == SubSeq(stack, DIGEST_LENGTH + 1, Len(stack))

verify_stack_equivalence(a, b) == skip_program_hash(a) = skip_program_hash(b)

Unmatched(m, other) ==
    {<<k, m[k]>> : k \in {x \in DOMAIN m : x \notin DOMAIN other \/ other[x] # m[x]}}

\* Mutant: only the entries of b are looked up in a.
verify_memory_equivalence_one_sided(a_memory, b_memory) ==
    ~ \E kv \in Unmatched(b_memory, a_memory) : kv[1] # DYN_MALLOC_ADDRESS

verify_memory_equivalence(a_memory, b_memory) ==
    LET memory_difference ==
            Unmatched(b_memory, a_memory) \cup Unmatched(a_memory, b_memory)
    IN ~ \E kv \in memory_difference : kv[1] # DYN_MALLOC_ADDRESS

Remove(mem, a) == [k \in (DOMAIN mem) \ {a} |-> mem[k]]

\* The memory check of the deprecated oracle: remove the cell, compare the maps.
deprecated_memory_equivalence(rust_memory, tasm_memory) ==
    Remove(rust_memory, DYN_MALLOC_ADDRESS) = Remove(tasm_memory, DYN_MALLOC_ADDRESS)

verify_hasher_state_equivalence(a, b) == a.final_sponge_state = b.final_sponge_state

verify_stack_growth(shadowed_snippet, initial_stack, final_stack) ==
    Len(final_stack) - Len(initial_stack) = shadowed_snippet.stack_diff

\* The stack-growth check of the deprecated oracle compares with the number
\* of field names.
deprecated_stack_growth(snippet_struct, initial_stack, final_stack) ==
    snippet_struct.output_names - snippet_struct.input_names
        = Len(final_stack) - Len(initial_stack)

\* "Declared stack diff must match type indicators"
declared_stack_diff_matches(snippet_struct) ==
    snippet_struct.stack_diff = SumSizes(snippet_struct.outputs) - SumSizes(snippet_struct.inputs)

\* Mutant: the deprecated harness hands the executor the field-name count.
deprecated_expected_stack_diff_names(snippet_struct) ==
    snippet_struct.output_names - snippet_struct.input_names

\* The expected stack diff the harnesses hand to execute_test.
deprecated_expected_stack_diff(snippet_struct) == snippet_struct.stack_diff

current_expected_stack_diff(snippet_struct) == snippet_struct.stack_diff

\* execute_test: the executor is given the expected stack diff and fails the
\* run when the stack did not grow by it.
execute_test(expected_stack_diff, initial_stack, final_stack) ==
    Len(final_stack) - Len(initial_stack) = expected_stack_diff

IsSome(opt) == opt[1] = "Some"

test_rust_equivalence_given_complete_state(s, stack, exp, r, t) ==
    IF ~execute_test(current_expected_stack_diff(s), stack, t.final_stack) THEN "execute"
    ELSE IF r.output # t.output THEN "output"
    ELSE IF ~verify_stack_equivalence(r.final_stack, t.final_stack) THEN "stack"
    ELSE IF IsSome(exp) /\ ~verify_stack_equivalence(exp[2], r.final_stack) THEN "expected"
    ELSE IF ~verify_memory_equivalence(r.final_ram, t.final_ram) THEN "memory"
    ELSE IF ~verify_stack_growth(s, stack, t.final_stack) THEN "growth"
    ELSE "pass"

link_and_run_tasm_for_test_deprecated(s, stack, t) ==
    IF ~declared_stack_diff_matches(s) THEN "refused"
    ELSE IF ~execute_test(deprecated_expected_stack_diff(s), stack, t.final_stack)
         THEN "execute"
    ELSE "ran"

test_rust_equivalence_given_complete_state_deprecated(s, stack, exp, r, t) ==
    IF link_and_run_tasm_for_test_deprecated(s, stack, t) # "ran"
    THEN link_and_run_tasm_for_test_deprecated(s, stack, t)
    ELSE IF skip_program_hash(t.final_stack) # skip_program_hash(r.final_stack) THEN "stack"
    ELSE IF IsSome(exp) /\ skip_program_hash(t.final_stack) # skip_program_hash(exp[2])
         THEN "expected"
    ELSE IF ~deprecated_memory_equivalence(r.final_ram, t.final_ram) THEN "memory"
    ELSE IF ~deprecated_stack_growth(s, stack, t.final_stack) THEN "growth"
    ELSE "pass"

\* --- inputs of the verifications
ProgramHashes == {[i \in 1..DIGEST_LENGTH |-> 0], [i \in 1..DIGEST_LENGTH |-> 1]}

OracleStacks == {h \o tl : h \in ProgramHashes, tl \in {<<>>, <<0>>, <<1>>, <<0, 0>>}}

OracleMemories == {EmptyMemory, (0 :> 1), (1 :> 1)}

FinalStates ==
    [output : {<<>>, <<1>>}, final_stack : OracleStacks, final_ram : OracleMemories,
     final_sponge_state : {0, 1}]

OracleSnippets ==
    LET dyn == Declared([id |-> DynMallocId, T |-> "none"])
        shr == Declared([id |-> ShiftRightU64Id, T |-> "none"])
        lma == Declared([id |-> LeftMostAncestor, T |-> "none"])
    IN {dyn, shr, lma,
        [dyn EXCEPT !.origin = "misdeclared", !.stack_diff = 1],
        [shr EXCEPT !.origin = "misnamed", !.input_names = 2]}

InitOracle ==
    /\ snippet \in OracleSnippets
    /\ init_stack = [i \in 1..(DIGEST_LENGTH + 1) |-> 0]
    /\ expected \in {<<"None">>, <<"Some", [i \in 1..DIGEST_LENGTH |-> 0] \o <<0, 0>>>>}
    /\ rust = NoState
    /\ tasm = NoState
    /\ verdict = "none"
    /\ verdict_dep = "none"
    /\ oracle_pc = "start"
    /\ verifications = <<>>
    /\ clones = <<>>
    /\ IdleMalloc
    /\ IdleLib

\* One verification by the current oracle: both executions produce some final
\* state and the oracle compares them.
TestCurrent ==
    /\ oracle_pc = "start"
    /\ \E r \in FinalStates, t \in FinalStates :
         /\ rust' = r
         /\ tasm' = t
         /\ verdict' = test_rust_equivalence_given_complete_state(
                            snippet, init_stack, expected, r, t)
    /\ oracle_pc' = "done"
    /\ UNCHANGED <<snippet, init_stack, expected, verdict_dep, verifications, clones,
                   mallocVars, libVars>>

\* One verification by the deprecated oracle; its reference implementation
\* yields a stack and a memory only.
TestDeprecated ==
    /\ oracle_pc = "start"
    /\ \E r \in {f \in FinalStates : f.output = <<>> /\ f.final_sponge_state = 0},
          t \in FinalStates :
         /\ rust' = r
         /\ tasm' = t
         /\ verdict_dep' = test_rust_equivalence_given_complete_state_deprecated(
                                snippet, init_stack, expected, r, t)
    /\ oracle_pc' = "done"
    /\ UNCHANGED <<snippet, init_stack, expected, verdict, verifications, clones,
                   mallocVars, libVars>>

NextOracle == TestCurrent \/ TestDeprecated

SpecOracle == InitOracle /\ [][NextOracle]_vars

\* --- the comparisons on their own
CompareStackSet ==
    {q \in SeqsUpTo({0, 1}, DIGEST_LENGTH + MaxTailLen) : Len(q) >= DIGEST_LENGTH - 1}

CompareMemorySet ==
    UNION {[D -> {0, 1}] : D \in SUBSET (0..MaxAddress)}

InitCompare ==
    /\ snippet = NoSnippet
    /\ init_stack = <<>>
    /\ expected = <<"None">>
    /\ rust = NoState
    /\ tasm = NoState
    /\ verdict = "none"
    /\ verdict_dep = "none"
    /\ oracle_pc = "start"
    /\ verifications = <<>>
    /\ clones = <<>>
    /\ IdleMalloc
    /\ IdleLib

\* The stack check of both oracles on a pair of final stacks.
CompareStacks ==
    /\ oracle_pc = "start"
    /\ \E a \in CompareStackSet, b \in CompareStackSet :
         /\ rust' = [rust EXCEPT !.final_stack = a]
         /\ tasm' = [tasm EXCEPT !.final_stack = b]
         /\ verdict' = IF verify_stack_equivalence(a, b) THEN "pass" ELSE "stack"
         /\ verdict_dep' = IF skip_program_hash(b) = skip_program_hash(a)
                           THEN "pass" ELSE "stack"
    /\ oracle_pc' = "done"
    /\ UNCHANGED <<snippet, init_stack, expected, verifications, clones, mallocVars, libVars>>

\* The memory check of both oracles on a pair of final memories.
CompareMemories ==
    /\ oracle_pc = "start"
    /\ \E a \in CompareMemorySet, b \in CompareMemorySet :
         /\ rust' = [rust EXCEPT !.final_ram = a]
         /\ tasm' = [tasm EXCEPT !.final_ram = b]
         /\ verdict' = IF verify_memory_equivalence(a, b) THEN "pass" ELSE "memory"
         /\ verdict_dep' = IF deprecated_memory_equivalence(a, b) THEN "pass" ELSE "memory"
    /\ oracle_pc' = "done"
    /\ UNCHANGED <<snippet, init_stack, expected, verifications, clones, mallocVars, libVars>>

NextCompare == CompareStacks \/ CompareMemories

SpecCompare == InitCompare /\ [][NextCompare]_vars

\* --- linking for a test run, for every declaration
InitLink ==
    /\ snippet \in AllDeclarations
    /\ init_stack = [i \in 1..(DIGEST_LENGTH + 1) |-> 0]
    /\ expected = <<"None">>
    /\ rust = NoState
    /\ tasm = NoState
    /\ verdict = "none"
    /\ verdict_dep = "none"
    /\ oracle_pc = "start"
    /\ verifications = <<>>
    /\ clones = <<>>
    /\ IdleMalloc
    /\ IdleLib

LinkAndRunDeprecated ==
    /\ oracle_pc = "start"
    /\ \E t \in {f \in FinalStates : f.output = <<>> /\ f.final_sponge_state = 0
                                      /\ f.final_ram = EmptyMemory} :
         /\ verdict_dep' = link_and_run_tasm_for_test_deprecated(snippet, init_stack, t)
         /\ tasm' = IF declared_stack_diff_matches(snippet) THEN t ELSE NoState
    /\ oracle_pc' = "done"
    /\ UNCHANGED <<snippet, init_stack, expected, rust, verdict, verifications, clones,
                   mallocVars, libVars>>

NextLink == LinkAndRunDeprecated

SpecLink == InitLink /\ [][NextLink]_vars

\* ------------------------------------------------------------ oracle claims
ObservedGrowth == Len(tasm.final_stack) - Len(init_stack)

MemoriesAgreeApartFromCell(a, b) ==
    \A x \in ((DOMAIN a) \cup (DOMAIN b)) \ {DYN_MALLOC_ADDRESS} :
        x \in DOMAIN a /\ x \in DOMAIN b /\ a[x] = b[x]

StacksAgreeBeyondPrefix(a, b) ==
    /\ Len(a) = Len(b)
    /\ \A i \in (DIGEST_LENGTH + 1)..Len(a) : a[i] = b[i]

\* C6 as stated: the current oracle passes a run only if the two final states
\* agree on stack (beyond the prefix), memory (apart from the cell), output
\* and sponge state.
C6_AllFourComponents ==
    verdict = "pass" =>
        /\ StacksAgreeBeyondPrefix(rust.final_stack, tasm.final_stack)
        /\ MemoriesAgreeApartFromCell(rust.final_ram, tasm.final_ram)
        /\ rust.output = tasm.output
        /\ verify_hasher_state_equivalence(rust, tasm)

\* What the current oracle does check: stack, memory and output.
C6_ThreeComponents ==
    verdict = "pass" =>
        /\ StacksAgreeBeyondPrefix(rust.final_stack, tasm.final_stack)
        /\ MemoriesAgreeApartFromCell(rust.final_ram, tasm.final_ram)
        /\ rust.output = tasm.output

\* C7: for two final stacks of at least DIGEST_LENGTH words the stack check
\* passes iff they have the same length and agree at every index >=
\* DIGEST_LENGTH; the first DIGEST_LENGTH words never matter.
C7_PrefixIgnored ==
    (oracle_pc = "done" /\ Len(rust.final_stack) >= DIGEST_LENGTH
        /\ Len(tasm.final_stack) >= DIGEST_LENGTH)
    => /\ verdict = "pass" <=> StacksAgreeBeyondPrefix(rust.final_stack, tasm.final_stack)
       /\ verdict_dep = verdict

C7_Witness ==
    /\ oracle_pc = "done"
    /\ rust.final_stack = <<0, 0, 0, 0, 0, 1>>
    /\ tasm.final_stack = <<1, 0, 1, 0, 1, 1>>
    /\ verdict = "pass"

\* C8: the memory check fails iff an address other than the allocator cell
\* has different values in the two memories or is present in one only; the
\* deprecated check gives the same verdict.
C8_MemoryVerdict ==
    oracle_pc = "done" =>
        /\ verdict = "memory"
              <=> ~MemoriesAgreeApartFromCell(rust.final_ram, tasm.final_ram)
        /\ verdict_dep = "memory"
              <=> ~MemoriesAgreeApartFromCell(rust.final_ram, tasm.final_ram)

C8_Witness ==
    /\ oracle_pc = "done"
    /\ rust.final_ram = (0 :> 1) @@ (1 :> 1)
    /\ tasm.final_ram = (1 :> 1)
    /\ verdict = "pass"
    /\ verdict_dep = "pass"

\* C9: a verification passes only if the stack grew by the declared
\* stack_diff, with the current and with the deprecated oracle.
C9_StackDiffLaw ==
    oracle_pc = "done" =>
        (ObservedGrowth # snippet.stack_diff => (verdict # "pass" /\ verdict_dep # "pass"))

C9_Witness ==
    /\ oracle_pc = "done"
    /\ verdict_dep = "pass"
    /\ snippet.id = ShiftRightU64Id
    /\ snippet.origin = "catalog"
    /\ snippet.stack_diff = -1
    /\ ObservedGrowth = -1

list_new(list_pointer, mem) == WriteMem(mem, list_pointer, 0)

list_push(list_pointer, value, mem) ==
    LET len == ReadMem(mem, list_pointer)
        first == list_pointer + 1 + len * Len(value)
        slot == first .. (first + Len(value) - 1)
    IN [a \in (DOMAIN mem) \cup slot \cup {list_pointer} |->
            IF a = list_pointer THEN len + 1
            ELSE IF a \in slot THEN value[a - first + 1]
            ELSE mem[a]]

RECURSIVE PushAll(_, _, _)
PushAll(list_pointer, values, mem) ==
    IF values = <<>> THEN mem
    ELSE PushAll(list_pointer, Tail(values), list_push(list_pointer, values[1], mem))

\* The address the generator wrote into the body: push {static_auth_path_pointer}.
static_auth_path_pointer(body) ==
    body[CHOOSE k \in 1..Len(body) : body[k].op = "push"].arg

\* Mutant: the length of the authentication path is not reset.
calculate_new_peaks_from_append_unreset(auth_path_pointer, previous_peaks, mem) ==
    [auth_path |-> auth_path_pointer,
     mem |-> PushAll(auth_path_pointer, previous_peaks, mem)]

\* One run of the body as far as the authentication path goes: the list at
\* the static address is given length 0, every previous peak met on the way
\* up is pushed to it, and its address is returned as *auth_path.
calculate_new_peaks_from_append(auth_path_pointer, previous_peaks, mem) ==
    [auth_path |-> auth_path_pointer,
     mem |-> PushAll(auth_path_pointer, previous_peaks, list_new(auth_path_pointer, mem))]

PeakDigests == {[j \in 1..DIGEST_LENGTH |-> d] : d \in {1, 2}}

\* A call of calculate_new_peaks_from_append in the linked program.
Invoke(previous_peaks) ==
    /\ gen_stack = <<>>
    /\ CalculateNewPeaksFromAppend \in DOMAIN body_code
    /\ Len(calls) < MaxInvocations
    /\ LET run == calculate_new_peaks_from_append(
                      static_auth_path_pointer(body_code[CalculateNewPeaksFromAppend]),
                      previous_peaks, memory)
       IN /\ memory' = run.mem
          /\ calls' = Append(calls, [auth_path |-> run.auth_path, pushed |-> previous_peaks])
    /\ vm_status' = "running"
    /\ UNCHANGED <<seed, std_in, libVars, oracleVars>>

\* The program is linked, then executed.
NextStatic ==
    \/ /\ vm_status = "idle"
       /\ \/ \E id \in {CalculateNewPeaksFromAppend, ListPush} : CallerImport(id)
          \/ \E words \in {1} : CallerKmalloc(words)
          \/ GeneratorImport
          \/ GeneratorKmalloc
          \/ GeneratorReturn
    \/ \E previous_peaks \in SeqsUpTo(PeakDigests, 2) : Invoke(previous_peaks)

SpecStatic == InitLib /\ [][NextStatic]_vars

GrantedTo(id) == {k \in 1..Len(granted) : granted[k].by = id}

\* C13: however often CalculateNewPeaksFromAppend is imported and called, its
\* static memory is granted once; every call returns that one address as
\* *auth_path, and after a call the list there holds exactly the peaks of
\* that call: the length was reset and the earlier path is overwritten.
C13_StaticMemoryShared ==
    /\ \A id \in DOMAIN import_table : Cardinality(GrantedTo(id)) <= 1
    /\ \A i \in 1..Len(calls) :
          /\ GrantedTo(CalculateNewPeaksFromAppend) # {}
          /\ \A k \in GrantedTo(CalculateNewPeaksFromAppend) :
                calls[i].auth_path = granted[k].addr
    /\ calls # <<>> =>
          LET last == calls[Len(calls)] IN
            /\ ReadMem(memory, last.auth_path) = Len(last.pushed)
            /\ \A k \in 1..Len(last.pushed), j \in 1..DIGEST_LENGTH :
                  ReadMem(memory, last.auth_path + 1 + (k - 1) * DIGEST_LENGTH + (j - 1))
                      = last.pushed[k][j]

\* Imported twice and called twice with 65 words pre-reserved: the second
\* call returns 65 again and the one peak it pushes replaces the first of the
\* two peaks the first call had left there.
C13_Witness ==
    /\ lib_seed = TestPreallocated
    /\ Cardinality({k \in 1..Len(returned) : returned[k].id = CalculateNewPeaksFromAppend}) >= 2
    /\ Len(calls) = 2
    /\ calls[1].auth_path = 65
    /\ calls[2].auth_path = 65
    /\ Len(calls[1].pushed) = 2
    /\ calls[1].pushed[1][1] = 1
    /\ Len(calls[2].pushed) = 1
    /\ memory[65] = 1
    /\ memory[66] = 2

\* ------------------------------------------------------------ verifications side by side
\* Mutant: the reference implementation takes the cell as it finds it.
DynMalloc_rust_shadowing_unnormalized(stack, mem) ==
    LET used_memory == ReadMem(mem, DYN_MALLOC_ADDRESS)
        size == Top(stack)
        bumped == (used_memory + size) % FieldP
    IN [stack |-> Append(Pop(stack), used_memory),
        mem |-> WriteMem(mem, DYN_MALLOC_ADDRESS, bumped),
        ok |-> (size < U32Range /\ bumped < U32Range)]

\* DynMalloc::rust_shadowing: the reference implementation.  The two asserts
\* are its panics.
DynMalloc_rust_shadowing(stack, mem) ==
    LET used_memory == IF ReadMem(mem, DYN_MALLOC_ADDRESS) = 0
                       THEN 1 ELSE ReadMem(mem, DYN_MALLOC_ADDRESS)
        size == Top(stack)
        next_addr == used_memory
        bumped == (used_memory + size) % FieldP
    IN [stack |-> Append(Pop(stack), next_addr),
        mem |-> WriteMem(mem, DYN_MALLOC_ADDRESS, bumped),
        ok |-> (size < U32Range /\ bumped < U32Range)]

rust_dyn_malloc_initialize(mem, words_statically_allocated) ==
    WriteMem(mem, DYN_MALLOC_ADDRESS, words_statically_allocated)

\* The arguments of a verification of DynMalloc.
VerificationInputs ==
    [size : {0, 1, 10, U32Range}, words_statically_allocated : {0, MaxStaticWords}]

StackOf(input) == [i \in 1..DIGEST_LENGTH |-> 0] \o << input.size >>

FinalState(stack, mem) ==
    [output |-> <<>>, final_stack |-> stack, final_ram |-> mem, final_sponge_state |-> 0]

\* The run on the virtual machine: the allocator cell is seeded, then the
\* snippet is called.
tasm_run(stack, mem, words_statically_allocated) ==
    Run(DynMalloc_function_code, 1,
        Run(get_initialization_code(words_statically_allocated), 1,
            [stack |-> stack, mem |-> mem, ok |-> TRUE]))

\* A verification run on its own, as one computation.
Alone(input) ==
    LET words == input.words_statically_allocated
        r == DynMalloc_rust_shadowing(StackOf(input),
                IF words > 0 THEN rust_dyn_malloc_initialize(EmptyMemory, words)
                ELSE EmptyMemory)
        t == tasm_run(StackOf(input), EmptyMemory, words)
    IN [verdict |->
            IF ~r.ok \/ ~t.ok THEN "panic"
            ELSE test_rust_equivalence_given_complete_state_deprecated(
                     Declared([id |-> DynMallocId, T |-> "none"]), StackOf(input),
                     <<"None">>, FinalState(r.stack, r.mem), FinalState(t.stack, t.mem)),
        rust_ok |-> r.ok,
        tasm_stack |-> t.stack,
        tasm_memory |-> t.mem]

\* Mutant: every verification works on the copies of the first one.
clone_of_the_first(v) == 1

\* `memory.clone()`, `stack.to_vec()`: the copies verification v makes are
\* its own.
clone_of(v) == v

Verifiers == {1, 2}

InitParallel ==
    /\ verifications \in
          [Verifiers -> [input : VerificationInputs, pc : {"clone"}, verdict : {"none"},
                         library : {"none"}, code : {<<>>}]]
    /\ clones = [k \in Verifiers |->
                    [rust_stack |-> <<>>, rust_memory |-> EmptyMemory,
                     tasm_stack |-> <<>>, tasm_memory |-> EmptyMemory]]
    /\ snippet = NoSnippet
    /\ init_stack = <<>>
    /\ expected = <<"None">>
    /\ rust = NoState
    /\ tasm = NoState
    /\ verdict = "none"
    /\ verdict_dep = "none"
    /\ oracle_pc = "idle"
    /\ IdleMalloc
    /\ IdleLib

Others == <<snippet, init_stack, expected, rust, tasm, verdict, verdict_dep, oracle_pc,
            mallocVars, libVars>>

\* let mut rust_memory = memory.clone(); ... let mut tasm_stack = stack.to_vec();
Clone(v) ==
    /\ verifications[v].pc = "clone"
    /\ clones' = [clones EXCEPT ![clone_of(v)] =
                     [rust_stack |-> StackOf(verifications[v].input),
                      rust_memory |-> EmptyMemory,
                      tasm_stack |-> StackOf(verifications[v].input),
                      tasm_memory |-> EmptyMemory]]
    /\ verifications' = [verifications EXCEPT ![v].pc = "rust"]
    /\ UNCHANGED Others

\* rust_dyn_malloc_initialize and snippet_struct.rust_shadowing on the copies.
RunRust(v) ==
    /\ verifications[v].pc = "rust"
    /\ LET words == verifications[v].input.words_statically_allocated
           mine == clones[clone_of(v)]
           r == DynMalloc_rust_shadowing(mine.rust_stack,
                    IF words > 0 THEN rust_dyn_malloc_initialize(mine.rust_memory, words)
                    ELSE mine.rust_memory)
       IN /\ clones' = [clones EXCEPT ![clone_of(v)].rust_stack = r.stack,
                                      ![clone_of(v)].rust_memory = r.mem]
          /\ verifications' =
                [verifications EXCEPT ![v].pc = IF r.ok THEN "link" ELSE "done",
                                      ![v].verdict = IF r.ok THEN "none" ELSE "panic"]
    /\ UNCHANGED Others

\* link_for_isolated_run_deprecated: a Library of the verification's own.
Link(v) ==
    /\ verifications[v].pc = "link"
    /\ LET words == verifications[v].input.words_statically_allocated IN
         verifications' =
            [verifications EXCEPT
                ![v].pc = "tvm",
                ![v].library = [free_pointer |-> with_preallocated_memory(words)],
                ![v].code = Linked(DynMallocId, words)]
    /\ UNCHANGED <<clones, Others>>

\* execute_test on the copies.
RunTasm(v) ==
    /\ verifications[v].pc = "tvm"
    /\ LET mine == clones[clone_of(v)]
           t == tasm_run(mine.tasm_stack, mine.tasm_memory,
                         verifications[v].input.words_statically_allocated)
       IN /\ clones' = [clones EXCEPT ![clone_of(v)].tasm_stack = t.stack,
                                      ![clone_of(v)].tasm_memory = t.mem]
          /\ verifications' =
                [verifications EXCEPT ![v].pc = IF t.ok THEN "compare" ELSE "done",
                                      ![v].verdict = IF t.ok THEN "none" ELSE "panic"]
    /\ UNCHANGED Others

\* The assertions on the two final states.
Compare(v) ==
    /\ verifications[v].pc = "compare"
    /\ LET mine == clones[clone_of(v)] IN
         verifications' =
            [verifications EXCEPT
                ![v].pc = "done",
                ![v].verdict =
                    test_rust_equivalence_given_complete_state_deprecated(
                        Declared([id |-> DynMallocId, T |-> "none"]),
                        StackOf(verifications[v].input), <<"None">>,
                        FinalState(mine.rust_stack, mine.rust_memory),
                        FinalState(mine.tasm_stack, mine.tasm_memory))]
    /\ UNCHANGED <<clones, Others>>

NextParallel ==
    \E v \in Verifiers : Clone(v) \/ RunRust(v) \/ Link(v) \/ RunTasm(v) \/ Compare(v)

SpecParallel == InitParallel /\ [][NextParallel]_vars

\* C14: whatever the other verification does in between, a verification ends
\* with the verdict it has when run alone, with the final stack and memory of
\* its own run, with a Library seeded for it alone and the code linked for it.
C14_Independent ==
    \A v \in DOMAIN verifications :
        verifications[v].pc = "done" =>
            LET alone == Alone(verifications[v].input) IN
              /\ verifications[v].verdict = alone.verdict
              /\ alone.rust_ok =>
                    /\ clones[v].tasm_stack = alone.tasm_stack
                    /\ clones[v].tasm_memory = alone.tasm_memory
                    /\ verifications[v].library.free_pointer
                          = verifications[v].input.words_statically_allocated
                    /\ verifications[v].code
                          = Linked(DynMallocId, verifications[v].input.words_statically_allocated)

\* Both verifications are over; the first asked for 10 words from an unset
\* cell, the second for 1 word with the cell seeded, and each has its own result.
C14_Witness ==
    /\ DOMAIN verifications = Verifiers
    /\ verifications[1].pc = "done"
    /\ verifications[2].pc = "done"
    /\ verifications[1].input = [size |-> 10, words_statically_allocated |-> 0]
    /\ verifications[2].input = [size |-> 1, words_statically_allocated |-> MaxStaticWords]
    /\ verifications[1].verdict = "pass"
    /\ verifications[2].verdict = "pass"
    /\ Top(clones[1].tasm_stack) = 1
    /\ Top(clones[2].tasm_stack) = MaxStaticWords
    /\ clones[1].tasm_memory[DYN_MALLOC_ADDRESS] = 11

\* ------------------------------------------------------------ failure reports
\* Library::new(): a Library with nothing pre-reserved.
Library_new == [seen |-> {}, function_bodies |-> <<>>, free_pointer |-> 0]

\* snippet_struct.code(&mut Library::new()): the body alone, generated
\* against a new Library.
code_with_new_library(id) == generate(id, 1, << I("label", id) >>, Library_new).body

NoCode == <<>>

\* The messages of the failing assertions, as the values they are formatted from.
deprecated_stack_report(id, r, t) ==
    [kind |-> "stack", tasm |-> skip_program_hash(t.final_stack),
     rust |-> skip_program_hash(r.final_stack), code |-> code_with_new_library(id)]

deprecated_memory_report(id, r, t) ==
    [kind |-> "memory", tasm |-> Remove(t.final_ram, DYN_MALLOC_ADDRESS),
     rust |-> Remove(r.final_ram, DYN_MALLOC_ADDRESS), code |-> code_with_new_library(id)]

verify_stack_equivalence_report(a, b) ==
    [kind |-> "stack", tasm |-> skip_program_hash(b), rust |-> skip_program_hash(a),
     code |-> NoCode]

verify_memory_equivalence_report(a_memory, b_memory) ==
    [kind |-> "memory", tasm |-> b_memory, rust |-> a_memory, code |-> NoCode]

NoReport == [kind |-> "none", tasm |-> <<>>, rust |-> <<>>, code |-> NoCode]

ReportStates ==
    {FinalState([i \in 1..DIGEST_LENGTH |-> 0] \o <<w>>, m) :
        w \in {0, 1}, m \in {EmptyMemory, (1 :> 1)}}

InitReport ==
    /\ verifications \in
          [{1} -> [id : DirectSnippets, words_statically_allocated : {0, 1, TestPreallocated},
                   pc : {"compare"}, executed : {<<>>}, rust : {NoState}, tasm : {NoState},
                   report : {NoReport}]]
    /\ clones = <<>>
    /\ snippet = NoSnippet
    /\ init_stack = <<>>
    /\ expected = <<"None">>
    /\ rust = NoState
    /\ tasm = NoState
    /\ verdict = "none"
    /\ verdict_dep = "none"
    /\ oracle_pc = "idle"
    /\ IdleMalloc
    /\ IdleLib

\* The deprecated oracle after both runs: the first failing assertion, if
\* any, formats its report.
ReportDeprecated ==
    /\ verifications[1].pc = "compare"
    /\ \E r \in ReportStates, t \in ReportStates :
         LET this == verifications[1] IN
         verifications' =
            [verifications EXCEPT
                ![1].pc = "done",
                ![1].rust = r,
                ![1].tasm = t,
                ![1].executed = Linked(this.id, this.words_statically_allocated),
                ![1].report =
                    IF skip_program_hash(t.final_stack) # skip_program_hash(r.final_stack)
                    THEN deprecated_stack_report(this.id, r, t)
                    ELSE IF ~deprecated_memory_equivalence(r.final_ram, t.final_ram)
                    THEN deprecated_memory_report(this.id, r, t)
                    ELSE NoReport]
    /\ UNCHANGED <<clones, Others>>

\* The current oracle after both runs.
ReportCurrent ==
    /\ verifications[1].pc = "compare"
    /\ \E r \in ReportStates, t \in ReportStates :
         LET this == verifications[1] IN
         verifications' =
            [verifications EXCEPT
                ![1].pc = "done",
                ![1].rust = r,
                ![1].tasm = t,
                ![1].executed = Linked(this.id, this.words_statically_allocated),
                ![1].report =
                    IF ~verify_stack_equivalence(r.final_stack, t.final_stack)
                    THEN verify_stack_equivalence_report(r.final_stack, t.final_stack)
                    ELSE IF ~verify_memory_equivalence(r.final_ram, t.final_ram)
                    THEN verify_memory_equivalence_report(r.final_ram, t.final_ram)
                    ELSE NoReport]
    /\ UNCHANGED <<clones, Others>>

NextReport == ReportDeprecated \/ ReportCurrent

SpecReport == InitReport /\ [][NextReport]_vars

Reported(v) == v.pc = "done" /\ v.report.kind # "none"

\* C15 as stated: a reported stack or memory mismatch carries the differing
\* contents of both executions and the linked code that was executed.
C15_ReportHasLinkedCode ==
    \A v \in DOMAIN verifications :
        Reported(verifications[v]) =>
            /\ verifications[v].report.tasm # verifications[v].report.rust
            /\ verifications[v].report.code = verifications[v].executed

\* What the reports do carry: the differing contents of both executions.
C15_ReportHasContents ==
    \A v \in DOMAIN verifications :
        Reported(verifications[v]) =>
            /\ verifications[v].report.tasm # verifications[v].report.rust
            /\ verifications[v].report.kind = "stack" =>
                  /\ verifications[v].report.tasm
                        = skip_program_hash(verifications[v].tasm.final_stack)
                  /\ verifications[v].report.rust
                        = skip_program_hash(verifications[v].rust.final_stack)

\* ------------------------------------------------------------ list/safeimplu32/pop.rs
ListCapacity == 30

RECURSIVE read_elements_from(_, _)
read_elements_from(i, element_size) ==
    IF i >= element_size THEN << >>
    ELSE << I("read_mem", 0), I("swap", 1) >>
            \o (IF i # element_size - 1 THEN << I("push", FieldP - 1), I("add", 0) >>
                ELSE << >>)
            \o read_elements_from(i + 1, element_size)

\* Mutant: only the last word of the element is read.
code_to_read_elements_last_word(element_size) == << I("read_mem", 0), I("swap", 1) >>

code_to_read_elements(element_size) == read_elements_from(0, element_size)

\* Mutant: the length is never multiplied by the element size.
mul_with_size_never(element_size) == << >>

mul_with_size(element_size) ==
    IF element_size # 1 THEN << I("push", element_size), I("mul", 0) >> ELSE << >>

\* Mutant: the length is not tested before it is decreased.
SafePop_function_code_unchecked(data_type) ==
    << I("read_mem", 0),
       I("swap", 1), I("dup", 1), I("push", FieldP - 1), I("add", 0), I("write_mem", 0),
       I("swap", 1) >>
        \o mul_with_size(get_size(data_type))
        \o << I("add", 0), I("push", 1), I("add", 0) >>
        \o code_to_read_elements(get_size(data_type))
        \o << I("pop", 0), I("return", 0) >>

SafePop_function_code(data_type) ==
    << I("read_mem", 0),
       I("dup", 0), I("push", 0), I("eq", 0), I("push", 0), I("eq", 0), I("assert", 0),
       I("swap", 1), I("dup", 1), I("push", FieldP - 1), I("add", 0), I("write_mem", 0),
       I("swap", 1) >>
        \o mul_with_size(get_size(data_type))
        \o << I("add", 0), I("push", 1), I("add", 0) >>
        \o code_to_read_elements(get_size(data_type))
        \o << I("pop", 0), I("return", 0) >>

\* safe_insert_random_list: the length word, the capacity word, then the
\* elements, each of element_size words.
safe_insert_list(element_size, list_pointer, capacity, length, first_word) ==
    [a \in list_pointer .. (list_pointer + 1 + length * element_size) |->
        IF a = list_pointer THEN length
        ELSE IF a = list_pointer + 1 THEN capacity
        ELSE (first_word + (a - list_pointer - 2)) % FieldP]

ListPointers == {1, 48}

InitPop ==
    /\ snippet \in {Declared([id |-> SafePopId, T |-> T]) : T \in ElementTypes}
    /\ \E list_pointer \in ListPointers :
         init_stack = [i \in 1..DIGEST_LENGTH |-> 0] \o << list_pointer >>
    /\ \E length \in 0..MaxListLen, first_word \in {1, 100} :
         memory = safe_insert_list(get_size(snippet.T), Top(init_stack), ListCapacity,
                                   length, first_word)
    /\ seed = 0
    /\ std_in = <<>>
    /\ calls = <<>>
    /\ vm_status = "running"
    /\ expected = <<"None">>
    /\ rust = NoState
    /\ tasm = NoState
    /\ verdict = "none"
    /\ verdict_dep = "none"
    /\ oracle_pc = "idle"
    /\ verifications = <<>>
    /\ clones = <<>>
    /\ IdleLib

\* One call of SafePop on the list, from the initial stack.
PopCall ==
    /\ vm_status = "running"
    /\ Len(calls) < MaxInvocations + 1
    /\ \E vm \in {Run(SafePop_function_code(snippet.T), 1,
                      [stack |-> init_stack, mem |-> memory, ok |-> TRUE])} :
          /\ memory' = vm.mem
          /\ vm_status' = IF vm.ok THEN "running" ELSE "aborted"
          /\ calls' = Append(calls,
                [length |-> ReadMem(memory, Top(init_stack)), ok |-> vm.ok,
                 mem_before |-> memory, mem_after |-> vm.mem,
                 stack_after |-> IF vm.ok THEN vm.stack ELSE <<>>])
    /\ UNCHANGED <<seed, std_in, libVars, oracleVars>>

NextPop == PopCall

SpecPop == InitPop /\ [][NextPop]_vars

\* C16: SafePop on a list whose length word is 0 aborts, for every element
\* type, with no memory word written: the length word is still 0 and nothing
\* is returned.
C16_PopOnEmptyAborts ==
    \A i \in 1..Len(calls) :
        calls[i].length = 0 =>
            /\ ~calls[i].ok
            /\ calls[i].mem_after = calls[i].mem_before
            /\ ReadMem(calls[i].mem_after, Top(init_stack)) = 0
            /\ calls[i].stack_after = <<>>
            /\ vm_status = "aborted"

\* A list of two Digests popped twice; the third call finds length 0 and aborts.
C16_Witness ==
    /\ snippet.T = "Digest"
    /\ Len(calls) = 3
    /\ calls[1].length = 2
    /\ calls[2].ok
    /\ calls[3].length = 0
    /\ ~calls[3].ok
    /\ memory[Top(init_stack)] = 0
    /\ vm_status = "aborted"

\* C20: a successful SafePop(T) on a list of length L >= 1 leaves the words
\* of the last element on the stack in place of the pointer, word 0 on top,
\* and changes one memory word only: the length word becomes L - 1.
C20_PopFrame ==
    \A i \in 1..Len(calls) :
        (calls[i].ok /\ calls[i].length >= 1) =>
            LET N == get_size(snippet.T)
                list == Top(init_stack)
                L == calls[i].length
                st == calls[i].stack_after
            IN /\ Len(st) = Len(init_stack) - 1 + N
               /\ SubSeq(st, 1, Len(init_stack) - 1) = Pop(init_stack)
               /\ \A j \in 0..(N - 1) :
                     st[Len(st) - j] = calls[i].mem_before[list + 2 + (L - 1) * N + j]
               /\ DOMAIN calls[i].mem_after = DOMAIN calls[i].mem_before
               /\ \A a \in DOMAIN calls[i].mem_before :
                     calls[i].mem_after[a] =
                        IF a = list THEN L - 1 ELSE calls[i].mem_before[a]
               /\ calls[i].mem_after[list + 1] = ListCapacity

\* A list of two XFEs at address 48: the pop returns the three words of the
\* second element, word 0 on top, and the length word becomes 1.
C20_Witness ==
    /\ snippet.T = "XFE"
    /\ Top(init_stack) = 48
    /\ Len(calls) = 1
    /\ calls[1].ok
    /\ calls[1].length = 2
    /\ calls[1].stack_after = [i \in 1..DIGEST_LENGTH |-> 0] \o <<6, 5, 4>>
    /\ memory[48] = 1
    /\ memory[49] = ListCapacity
    /\ memory[53] = 4

\* ------------------------------------------------------------ arithmetic/u64/shift_right_u64.rs
\* The machine with call, return, skiz and the u32 instructions.  A machine
\* state here also has the position pc, the jump stack and the number of
\* times each label was called.
RECURSIVE ModPow(_, _)
ModPow(base, exponent) ==
    IF exponent = 0 THEN 1
    ELSE IF exponent % 2 = 0
         THEN LET h == ModPow(base, exponent \div 2) IN (h * h) % FieldP
         ELSE (base * ModPow(base, exponent - 1)) % FieldP

LabelAt(prog, label) == CHOOSE k \in 1..Len(prog) : prog[k] = I("label", label)

IsU32(word) == word < U32Range

Step(prog, vm) ==
    LET ins == prog[vm.pc]
        st == vm.stack
        next == [vm EXCEPT !.pc = @ + 1]
    IN CASE ins.op = "halt" -> [vm EXCEPT !.halted = TRUE]
         [] ins.op = "label" -> next
         [] ins.op = "call" ->
               [vm EXCEPT !.pc = LabelAt(prog, ins.arg),
                          !.jumps = Append(@, vm.pc + 1),
                          !.entered = Append(@, ins.arg)]
         [] ins.op = "return" ->
               [vm EXCEPT !.pc = Top(vm.jumps), !.jumps = Pop(@)]
         [] ins.op = "skiz" ->
               [vm EXCEPT !.stack = Pop(st), !.pc = IF Top(st) = 0 THEN @ + 2 ELSE @ + 1]
         [] ins.op = "lt" ->
               IF IsU32(Top(st)) /\ IsU32(st[Len(st) - 1])
               THEN [next EXCEPT !.stack =
                        Append(Pop(Pop(st)), IF Top(st) < st[Len(st) - 1] THEN 1 ELSE 0)]
               ELSE [vm EXCEPT !.ok = FALSE]
         [] ins.op = "pow" ->
               IF IsU32(st[Len(st) - 1])
               THEN [next EXCEPT !.stack =
                        Append(Pop(Pop(st)), ModPow(Top(st), st[Len(st) - 1]))]
               ELSE [vm EXCEPT !.ok = FALSE]
         [] OTHER ->
               LET done == Exec(ins, [stack |-> st, mem |-> vm.mem, ok |-> vm.ok])
               IN [next EXCEPT !.stack = done.stack, !.mem = done.mem, !.ok = done.ok]

RECURSIVE RunProgram(_, _)
RunProgram(prog, vm) ==
    IF vm.halted \/ ~vm.ok THEN vm ELSE RunProgram(prog, Step(prog, vm))

Boot(stack, mem) ==
    [stack |-> stack, mem |-> mem, ok |-> TRUE, pc |-> 1, jumps |-> <<>>,
     entered |-> <<>>, halted |-> FALSE]

HandleHiShift == "tasm_arithmetic_u64_shift_right_handle_hi_shift"

\* Mutant: the bounds check lets the shift amount 64 through.
ShiftRightU64_bounds_check_off_by_one ==
    << I("push", 2 * WordBits + 1), I("dup", 1), I("lt", 0), I("assert", 0) >>

\* Bounds check: Verify that shift amount is less than 64.
ShiftRightU64_bounds_check ==
    << I("push", 2 * WordBits), I("dup", 1), I("lt", 0), I("assert", 0) >>

\* The body; 32 is the width of a native word, 64 of a u64.
ShiftRightU64_function_body ==
    << I("label", ShiftRightU64Id) >>
        \o ShiftRightU64_bounds_check
        \o << I("dup", 0), I("push", WordBits), I("lt", 0),
               I("skiz", 0),
               I("call", HandleHiShift),
               I("push", FieldP - 1), I("mul", 0), I("push", WordBits), I("add", 0),
               I("push", 2), I("pow", 0),
               I("swap", 1), I("dup", 1),
               I("mul", 0), I("split", 0), I("pop", 0),
               I("swap", 2), I("mul", 0),
               I("split", 0),
               I("swap", 1), I("swap", 2),
               I("add", 0),
               I("return", 0),
               I("label", HandleHiShift),
               I("push", FieldP - WordBits), I("add", 0),
               I("swap", 2), I("swap", 1), I("push", WordBits),
               I("call", ShiftRightU64Id),
               I("swap", 1), I("swap", 2),
               I("return", 0) >>

\* ShiftRightU64::rust_shadowing on (a_hi, a_lo, shift_amount).
ShiftRightU64_rust_shadowing(a_hi, a_lo, shift_amount) ==
    LET a == a_hi * U32Range + a_lo
        ret == a \div (2 ^ shift_amount)
    IN << ret \div U32Range, ret % U32Range >>

ShiftAmounts == (0 .. (2 * WordBits + 2)) \cup {U32Range - 1, U32Range, FieldP - 1}

InitShift ==
    /\ \E value_hi \in 0..(U32Range - 1), value_lo \in 0..(U32Range - 1),
          shift \in ShiftAmounts :
         init_stack = [i \in 1..DIGEST_LENGTH |-> 0] \o << value_hi, value_lo, shift >>
    /\ snippet = Declared([id |-> ShiftRightU64Id, T |-> "none"])
    /\ memory = EmptyMemory
    /\ seed = 0
    /\ std_in = <<>>
    /\ calls = <<>>
    /\ vm_status = "running"
    /\ expected = <<"None">>
    /\ rust = NoState
    /\ tasm = NoState
    /\ verdict = "none"
    /\ verdict_dep = "none"
    /\ oracle_pc = "idle"
    /\ verifications = <<>>
    /\ clones = <<>>
    /\ IdleLib

\* The snippet linked for an isolated run and executed from the initial stack.
ShiftCall ==
    /\ vm_status = "running"
    /\ calls = <<>>
    /\ \E vm \in {RunProgram(link_for_isolated_run(ShiftRightU64Id,
                                  ShiftRightU64_function_body, <<>>),
                             Boot(init_stack, memory))} :
          /\ vm_status' = IF vm.ok THEN "halted" ELSE "aborted"
          /\ calls' = << [ok |-> vm.ok, stack_after |-> IF vm.ok THEN vm.stack ELSE <<>>,
                          entered |-> vm.entered] >>
    /\ UNCHANGED <<memory, seed, std_in, libVars, oracleVars>>

NextShift == ShiftCall

SpecShift == InitShift /\ [][NextShift]_vars

Times(entered, label) == Cardinality({k \in 1..Len(entered) : entered[k] = label})

\* C17: for every value (hi, lo) and every shift amount below 64 the snippet
\* leaves (value >> shift) as (hi, lo) in place of its three arguments; for a
\* shift above 32 the entrypoint is entered once more, with shift 32, and
\* otherwise not; for every shift amount of 64 or more the execution aborts.
C17_ShiftRight ==
    calls # <<>> =>
        LET value_hi == init_stack[DIGEST_LENGTH + 1]
            value_lo == init_stack[DIGEST_LENGTH + 2]
            shift == init_stack[DIGEST_LENGTH + 3]
        IN /\ shift < 2 * WordBits =>
                /\ calls[1].ok
                /\ calls[1].stack_after =
                      SubSeq(init_stack, 1, DIGEST_LENGTH)
                        \o ShiftRightU64_rust_shadowing(value_hi, value_lo, shift)
                /\ Times(calls[1].entered, ShiftRightU64Id)
                      = IF shift > WordBits THEN 2 ELSE 1
                /\ Times(calls[1].entered, HandleHiShift)
                      = IF shift > WordBits THEN 1 ELSE 0
           /\ shift >= 2 * WordBits => ~calls[1].ok

\* The largest value shifted by one more than a native word: the high word
\* moves into the low word and loses one bit.
C17_Witness ==
    /\ calls # <<>>
    /\ init_stack[DIGEST_LENGTH + 1] = U32Range - 1
    /\ init_stack[DIGEST_LENGTH + 2] = U32Range - 1
    /\ init_stack[DIGEST_LENGTH + 3] = WordBits + 1
    /\ calls[1].ok
    /\ calls[1].stack_after[DIGEST_LENGTH + 1] = 0
    /\ calls[1].stack_after[DIGEST_LENGTH + 2] = (U32Range - 1) \div 2
    /\ calls[1].entered = << ShiftRightU64Id, HandleHiShift, ShiftRightU64Id >>

\* ------------------------------------------------------------ dyn_malloc.rs: reference and generated code
\* A word of the caller's at an address other than the allocator cell.
OtherAddress == DYN_MALLOC_ADDRESS + 1

StacksBelow == { [i \in 1..DIGEST_LENGTH |-> 0], [i \in 1..DIGEST_LENGTH |-> i] }

InitAgree ==
    /\ \E below \in StacksBelow, size \in SizeInputs : init_stack = below \o << size >>
    /\ \E unset \in BOOLEAN, cell \in CellValues, other \in BOOLEAN :
         memory = [a \in (IF unset THEN {} ELSE {DYN_MALLOC_ADDRESS})
                           \cup (IF other THEN {OtherAddress} ELSE {})
                     |-> IF a = DYN_MALLOC_ADDRESS THEN cell ELSE DIGEST_LENGTH]
    /\ seed = 0
    /\ std_in = <<>>
    /\ calls = <<>>
    /\ vm_status = "running"
    /\ snippet = NoSnippet
    /\ expected = <<"None">>
    /\ rust = NoState
    /\ tasm = NoState
    /\ verdict = "none"
    /\ verdict_dep = "none"
    /\ oracle_pc = "idle"
    /\ verifications = <<>>
    /\ clones = <<>>
    /\ IdleLib

\* rust_shadowing on a clone of the initial stack and memory.
AgreeRust ==
    /\ rust = NoState
    /\ rust' = DynMalloc_rust_shadowing(init_stack, memory)
    /\ UNCHANGED <<memory, seed, std_in, calls, vm_status, libVars, snippet, init_stack, expected,
                   tasm, verdict, verdict_dep, oracle_pc, verifications, clones>>

\* The generated code on a clone of the initial stack and memory.
AgreeTasm ==
    /\ tasm = NoState
    /\ tasm' = Run(DynMalloc_function_code, 1,
                   [stack |-> init_stack, mem |-> memory, ok |-> TRUE])
    /\ UNCHANGED <<memory, seed, std_in, calls, vm_status, libVars, snippet, init_stack, expected,
                   rust, verdict, verdict_dep, oracle_pc, verifications, clones>>

NextAgree == AgreeRust \/ AgreeTasm

SpecAgree == InitAgree /\ [][NextAgree]_vars

BothRan == rust # NoState /\ tasm # NoState

\* C19: for every size and every initial allocator cell (unset, 0, non-zero)
\* the reference implementation and the generated code abort in the same
\* cases, and otherwise return the same address and leave the same value in
\* the allocator cell, with every other memory word and every stack word
\* below the size argument as it was.
C19_ReferenceAgrees ==
    BothRan =>
        /\ rust.ok = tasm.ok
        /\ tasm.ok =>
              /\ Top(rust.stack) = Top(tasm.stack)
              /\ DYN_MALLOC_ADDRESS \in DOMAIN rust.mem \cap DOMAIN tasm.mem
              /\ rust.mem[DYN_MALLOC_ADDRESS] = tasm.mem[DYN_MALLOC_ADDRESS]
              /\ \A r \in {rust, tasm} :
                    /\ Len(r.stack) = Len(init_stack)
                    /\ Pop(r.stack) = Pop(init_stack)
                    /\ DOMAIN r.mem = DOMAIN memory \cup {DYN_MALLOC_ADDRESS}
                    /\ \A a \in DOMAIN memory \ {DYN_MALLOC_ADDRESS} : r.mem[a] = memory[a]

\* A cell holding the zero sentinel, a word of the caller's elsewhere and
\* distinct words below the argument: both grant address 1 and leave 11.
C19_Witness ==
    /\ BothRan
    /\ memory = (DYN_MALLOC_ADDRESS :> 0) @@ (OtherAddress :> DIGEST_LENGTH)
    /\ init_stack = [i \in 1..DIGEST_LENGTH |-> i] \o << 10 >>
    /\ rust.ok /\ tasm.ok
    /\ Top(rust.stack) = 1 /\ Top(tasm.stack) = 1
    /\ rust.mem[DYN_MALLOC_ADDRESS] = 11 /\ tasm.mem[DYN_MALLOC_ADDRESS] = 11
    /\ tasm.mem[OtherAddress] = DIGEST_LENGTH

\* ------------------------------------------------------------ list/unsafeimplu32/new.rs
Labelled(id, code) == << I("label", id) >> \o code

\* Mutant: no word is reserved for the length.
UnsafeNew_function_code_without_length_word(data_type) ==
    << I("label", UnsafeNewId) >>
        \o mul_with_size(get_size(data_type))
        \o << I("call", DynMallocId),
              I("push", 0), I("write_mem", 0),
              I("return", 0) >>

UnsafeNew_function_code(data_type) ==
    << I("label", UnsafeNewId) >>
        \o mul_with_size(get_size(data_type))
        \o << I("push", 1), I("add", 0),
              I("call", DynMallocId),
              I("push", 0), I("write_mem", 0),
              I("return", 0) >>

\* UnsafeNew::rust_shadowing: the capacity in words is handed to
\* DynMalloc::rust_shadowing and the length word of the new list is set to 0.
UnsafeNew_rust_shadowing(data_type, stack, mem) ==
    LET capacity_in_elements == Top(stack)
        capacity_in_bfes == capacity_in_elements * get_size(data_type)
        allocated == DynMalloc_rust_shadowing(Append(Pop(stack), capacity_in_bfes), mem)
        list_pointer == Top(allocated.stack)
    IN [stack |-> allocated.stack,
        mem |-> list_new(list_pointer, allocated.mem),
        ok |-> allocated.ok]

\* The addresses a straight-line body reads from instruction i on.
RECURSIVE ReadsOf(_, _, _)
ReadsOf(code, i, vm) ==
    IF i > Len(code) \/ ~vm.ok \/ code[i].op = "return" THEN {}
    ELSE (IF code[i].op = "read_mem" THEN {Top(vm.stack)} ELSE {})
            \cup ReadsOf(code, i + 1, Exec(code[i], vm))

\* gen_input_states: capacities 0, 1, 2, 3, 5 and a large one.
Capacities == {0, 1, 2, 3, 5, U32Range - 1}

LaterSizes == {0, 1, 2, U32Range - 1}

InitLists ==
    /\ \/ /\ snippet \in {Declared([id |-> SafePopId, T |-> T]) : T \in ElementTypes}
          /\ \E list_pointer \in ListPointers :
               init_stack = [i \in 1..DIGEST_LENGTH |-> 0] \o << list_pointer >>
          /\ \E length \in 0..(MaxListLen + 1) :
               memory = safe_insert_list(get_size(snippet.T), Top(init_stack),
                                         ListCapacity, length, 1)
          /\ seed = 0
       \/ /\ snippet \in {Declared([id |-> UnsafeNewId, T |-> T]) : T \in ElementTypes}
          /\ \E capacity \in Capacities :
               init_stack = [i \in 1..DIGEST_LENGTH |-> 0] \o << capacity >>
          /\ seed \in {0, MaxStaticWords}
          /\ memory = Run(get_initialization_code(seed), 1,
                          [stack |-> <<>>, mem |-> EmptyMemory, ok |-> TRUE]).mem
    /\ calls = <<>>
    /\ std_in = <<>>
    /\ vm_status = "running"
    /\ expected = <<"None">>
    /\ rust = NoState
    /\ tasm = NoState
    /\ verdict = "none"
    /\ verdict_dep = "none"
    /\ oracle_pc = "idle"
    /\ verifications = <<>>
    /\ clones = <<>>
    /\ IdleLib

\* SafePop on the list, with the addresses it reads.
ListPopCall ==
    /\ snippet.id = SafePopId
    /\ calls = <<>>
    /\ \E vm \in {Run(SafePop_function_code(snippet.T), 1,
                      [stack |-> init_stack, mem |-> memory, ok |-> TRUE])} :
          /\ memory' = vm.mem
          /\ vm_status' = IF vm.ok THEN "halted" ELSE "aborted"
          /\ calls' = << [op |-> "pop", ok |-> vm.ok,
                          base |-> Top(init_stack),
                          width |-> get_size(snippet.T),
                          length |-> ReadMem(memory, Top(init_stack)),
                          words |-> DOMAIN memory,
                          reads |-> ReadsOf(SafePop_function_code(snippet.T), 1,
                                      [stack |-> init_stack, mem |-> memory, ok |-> TRUE])] >>
    /\ UNCHANGED <<seed, std_in, libVars, oracleVars>>

\* UnsafeNew linked with the allocator and run, and its reference
\* implementation on a clone of the same state.
ListNew ==
    /\ snippet.id = UnsafeNewId
    /\ calls = <<>>
    /\ \E vm \in {RunProgram(link_for_isolated_run(UnsafeNewId,
                                 UnsafeNew_function_code(snippet.T),
                                 Labelled(DynMallocId, DynMalloc_function_code)),
                             Boot(init_stack, memory))},
          shadow \in {UnsafeNew_rust_shadowing(snippet.T, init_stack, memory)} :
          /\ memory' = vm.mem
          /\ rust' = shadow
          /\ vm_status' = IF vm.ok THEN "running" ELSE "aborted"
          /\ calls' = << [op |-> "new", ok |-> vm.ok,
                          capacity |-> Top(init_stack),
                          width |-> get_size(snippet.T),
                          base |-> IF vm.ok THEN Top(vm.stack) ELSE 0,
                          height |-> Len(vm.stack),
                          before |-> EffectiveCell(memory),
                          after |-> ReadMem(vm.mem, DYN_MALLOC_ADDRESS),
                          length_written |-> /\ vm.ok
                                             /\ Top(vm.stack) \in DOMAIN vm.mem
                                             /\ vm.mem[Top(vm.stack)] = 0,
                          rust_ok |-> shadow.ok,
                          rust_base |-> Top(shadow.stack),
                          rust_after |-> ReadMem(shadow.mem, DYN_MALLOC_ADDRESS)] >>
    /\ UNCHANGED <<seed, std_in, libVars, snippet, init_stack, expected, tasm, verdict,
                   verdict_dep, oracle_pc, verifications, clones>>

\* A later allocation of the same execution, in the machine and in the
\* reference implementation.
ListAllocate(size) ==
    /\ snippet.id = UnsafeNewId
    /\ calls # <<>>
    /\ Len(calls) < MaxInvocations + 1
    /\ vm_status = "running"
    /\ \E vm \in {Run(DynMalloc_function_code, 1,
                      [stack |-> <<size>>, mem |-> memory, ok |-> TRUE])},
          shadow \in {DynMalloc_rust_shadowing(<<size>>, rust.mem)} :
          /\ memory' = vm.mem
          /\ rust' = [shadow EXCEPT !.ok = rust.ok /\ shadow.ok]
          /\ vm_status' = IF vm.ok THEN "running" ELSE "aborted"
          /\ calls' = Append(calls,
                [op |-> "allocate", ok |-> vm.ok, size |-> size,
                 base |-> IF vm.ok THEN Top(vm.stack) ELSE 0,
                 rust_ok |-> rust.ok /\ shadow.ok,
                 rust_base |-> Top(shadow.stack)])
    /\ UNCHANGED <<seed, std_in, libVars, snippet, init_stack, expected, tasm, verdict,
                   verdict_dep, oracle_pc, verifications, clones>>

NextLists == ListPopCall \/ ListNew \/ \E size \in LaterSizes : ListAllocate(size)

SpecLists == InitLists /\ [][NextLists]_vars

ListWords(new) == new.base .. (new.base + new.capacity * new.width)

\* C22: UnsafeNew(T) with capacity c asks the allocator for c*width(T) + 1
\* words, writes the length 0 to the address p it is given and returns p in
\* place of the capacity; no later allocation returns an address among the
\* words p .. p + c*width(T); the call aborts when c*width(T) + 1 does not fit
\* the native word.
C22_NewReservesItsWords ==
    (calls # <<>> /\ calls[1].op = "new") =>
        /\ calls[1].ok =>
              /\ calls[1].base = calls[1].before
              /\ calls[1].after = calls[1].base + calls[1].capacity * calls[1].width + 1
              /\ calls[1].length_written
              /\ calls[1].height = Len(init_stack)
              /\ \A k \in 2..Len(calls) :
                    calls[k].ok => calls[k].base \notin ListWords(calls[1])
        /\ calls[1].capacity * calls[1].width + 1 >= U32Range => ~calls[1].ok

\* A list of two XFEs made by a program with three static words: it lies at
\* 3 .. 9 and the two later allocations get 10 and 11.
C22_Witness ==
    /\ Len(calls) = 3
    /\ snippet.T = "XFE"
    /\ seed = MaxStaticWords
    /\ calls[1].op = "new" /\ calls[1].ok /\ calls[1].capacity = 2
    /\ calls[1].base = MaxStaticWords
    /\ calls[1].after = MaxStaticWords + 7
    /\ calls[2].ok /\ calls[2].size = 1 /\ calls[2].base = MaxStaticWords + 7
    /\ calls[3].ok /\ calls[3].base = MaxStaticWords + 8

\* C28 as stated: for every capacity c the reference implementation and the
\* generated code of UnsafeNew(T) leave the allocator cell at p + c*width(T) + 1,
\* and in either of the two a following allocation returns no address among
\* the words p .. p + c*width(T) of the new list.
C28_SameReservation ==
    (calls # <<>> /\ calls[1].op = "new" /\ calls[1].ok /\ calls[1].rust_ok) =>
        /\ calls[1].rust_base = calls[1].base
        /\ calls[1].after = calls[1].base + calls[1].capacity * calls[1].width + 1
        /\ calls[1].rust_after = calls[1].after
        /\ \A k \in 2..Len(calls) :
              /\ calls[k].ok => calls[k].base \notin ListWords(calls[1])
              /\ calls[k].rust_ok => calls[k].rust_base \notin ListWords(calls[1])

\* What the two do agree on: the address of the new list.  The reference
\* implementation reserves one word less, c*width(T), so that its next
\* allocation begins at the last word of the list.
C28_ReferenceOneWordShort ==
    (calls # <<>> /\ calls[1].op = "new" /\ calls[1].ok /\ calls[1].rust_ok) =>
        /\ calls[1].rust_base = calls[1].base
        /\ calls[1].after = calls[1].base + calls[1].capacity * calls[1].width + 1
        /\ calls[1].rust_after = calls[1].base + calls[1].capacity * calls[1].width
        /\ \A k \in 2..Len(calls) :
              calls[k].ok => calls[k].base \notin ListWords(calls[1])
        /\ (Len(calls) >= 2 /\ calls[2].rust_ok) =>
              calls[2].rust_base = calls[1].base + calls[1].capacity * calls[1].width

\* ------------------------------------------------------------ io/read_stdin.rs
RECURSIVE Repeat(_, _)
Repeat(ins, n) == IF n = 0 THEN << >> ELSE << ins >> \o Repeat(ins, n - 1)

ReadStdIn_function_code(data_type) ==
    << I("label", ReadStdInId) >>
        \o Repeat(I("read_io", 0), get_size(data_type))
        \o << I("return", 0) >>

\* Straight-line execution with the public input: read_io moves the first
\* unread word to the top of the stack and fails when there is none.
RECURSIVE RunIo(_, _, _)
RunIo(code, i, vm) ==
    IF i > Len(code) \/ ~vm.ok \/ code[i].op = "return" THEN vm
    ELSE IF code[i].op = "read_io"
         THEN IF vm.std_in = << >>
              THEN [vm EXCEPT !.ok = FALSE]
              ELSE RunIo(code, i + 1,
                         [vm EXCEPT !.stack = Append(@, Head(vm.std_in)),
                                    !.std_in = Tail(@)])
         ELSE LET done == Exec(code[i], [stack |-> vm.stack, mem |-> vm.mem, ok |-> vm.ok])
              IN RunIo(code, i + 1,
                       [vm EXCEPT !.stack = done.stack, !.mem = done.mem, !.ok = done.ok])

Min(a, b) == IF a < b THEN a ELSE b

\* ReadStdIn::rust_shadowing: std_in.iter().take(size) pushed in order.
ReadStdIn_rust_shadowing(data_type, stack, input, mem) ==
    [stack |-> stack \o SubSeq(input, 1, Min(get_size(data_type), Len(input))),
     mem |-> mem,
     ok |-> TRUE]

InitReadStdIn ==
    /\ snippet \in {Declared([id |-> ReadStdInId, T |-> T]) : T \in ElementTypes}
    /\ init_stack = [i \in 1..DIGEST_LENGTH |-> 0]
    /\ \E n \in 0..(DIGEST_LENGTH + 2), first \in {0, FieldP - 3} :
         std_in = [i \in 1..n |-> (first + i) % FieldP]
    /\ memory \in {EmptyMemory, (DYN_MALLOC_ADDRESS :> DIGEST_LENGTH)}
    /\ seed = 0
    /\ calls = <<>>
    /\ vm_status = "running"
    /\ expected = <<"None">>
    /\ rust = NoState
    /\ tasm = NoState
    /\ verdict = "none"
    /\ verdict_dep = "none"
    /\ oracle_pc = "idle"
    /\ verifications = <<>>
    /\ clones = <<>>
    /\ IdleLib

\* The generated code on the initial stack, memory and public input.
ReadTasm ==
    /\ tasm = NoState
    /\ tasm' = RunIo(ReadStdIn_function_code(snippet.T), 1,
                     [stack |-> init_stack, mem |-> memory, ok |-> TRUE, std_in |-> std_in])
    /\ UNCHANGED <<memory, seed, std_in, calls, vm_status, libVars, snippet, init_stack,
                   expected, rust, verdict, verdict_dep, oracle_pc, verifications, clones>>

\* The reference implementation on clones of the same.
ReadRust ==
    /\ rust = NoState
    /\ rust' = ReadStdIn_rust_shadowing(snippet.T, init_stack, std_in, memory)
    /\ UNCHANGED <<memory, seed, std_in, calls, vm_status, libVars, snippet, init_stack,
                   expected, tasm, verdict, verdict_dep, oracle_pc, verifications, clones>>

NextReadStdIn == ReadTasm \/ ReadRust

SpecReadStdIn == InitReadStdIn /\ [][NextReadStdIn]_vars

\* C23 as stated: ReadStdIn(T) takes exactly width(T) words from the front of
\* the public input, in order, and pushes them, the first word read deepest
\* and the last on top, changing no memory; when fewer than width(T) words
\* remain the execution aborts, in the generated code and in the reference
\* implementation alike.
C23_ReadsOrAborts ==
    LET w == get_size(snippet.T) IN
    /\ tasm # NoState =>
          /\ Len(std_in) >= w =>
                /\ tasm.ok
                /\ tasm.stack = init_stack \o SubSeq(std_in, 1, w)
                /\ tasm.std_in = SubSeq(std_in, w + 1, Len(std_in))
                /\ tasm.mem = memory
          /\ Len(std_in) < w => ~tasm.ok
    /\ rust # NoState =>
          /\ Len(std_in) >= w =>
                /\ rust.ok
                /\ rust.stack = init_stack \o SubSeq(std_in, 1, w)
                /\ rust.mem = memory
          /\ Len(std_in) < w => ~rust.ok

\* What holds: the generated code behaves as stated; the reference
\* implementation agrees with it when the input is long enough and otherwise
\* pushes the words there are and returns.
C23_ReferenceNeverAborts ==
    LET w == get_size(snippet.T) IN
    /\ tasm # NoState =>
          /\ Len(std_in) >= w =>
                /\ tasm.ok
                /\ tasm.stack = init_stack \o SubSeq(std_in, 1, w)
                /\ tasm.std_in = SubSeq(std_in, w + 1, Len(std_in))
                /\ tasm.mem = memory
          /\ Len(std_in) < w => ~tasm.ok
    /\ rust # NoState =>
          /\ rust.ok
          /\ rust.mem = memory
          /\ Len(std_in) >= w => rust.stack = init_stack \o SubSeq(std_in, 1, w)
          /\ Len(std_in) < w => rust.stack = init_stack \o std_in

\* ------------------------------------------------------------ the machine with imported snippets
\* A u64 is two words on the stack, the high word below the low word.
U64Range == U32Range * U32Range

RECURSIVE log_2_floor(_)
log_2_floor(v) == IF v <= 1 THEN 0 ELSE 1 + log_2_floor(v \div 2)

RECURSIVE and_u64(_, _)
and_u64(a, b) ==
    IF a = 0 \/ b = 0 THEN 0
    ELSE (IF a % 2 = 1 /\ b % 2 = 1 THEN 1 ELSE 0) + 2 * and_u64(a \div 2, b \div 2)

\* The stack with its n top words replaced by the words given.
Replace(st, n, words) == SubSeq(st, 1, Len(st) - n) \o words

AsU64(v) == << v \div U32Range, v % U32Range >>

TopU64(st, depth) == st[Len(st) - depth - 1] * U32Range + st[Len(st) - depth]

\* mmr::shared::leftmost_ancestor, as MmrLeftMostAncestor computes it:
\* 2^(log2_floor + 1) - 1 and the height log2_floor.
leftmost_ancestor(node_index) ==
    [node |-> 2 ^ (log_2_floor(node_index) + 1) - 1, height |-> log_2_floor(node_index)]

left_child(node_index, height) == node_index - 2 ^ height

right_child(node_index) == node_index - 1

\* right_ancestor_count_and_own_height, the loop from candidate on.
RECURSIVE right_ancestor_count_from(_, _, _, _)
right_ancestor_count_from(candidate, candidate_height, count, node_index) ==
    IF candidate = node_index \/ candidate_height = 0
    THEN [count |-> count, height |-> candidate_height]
    ELSE IF left_child(candidate, candidate_height) < node_index
         THEN right_ancestor_count_from(right_child(candidate), candidate_height - 1,
                                        count + 1, node_index)
         ELSE right_ancestor_count_from(left_child(candidate, candidate_height),
                                        candidate_height - 1, 0, node_index)

right_ancestor_count_and_own_height(node_index) ==
    right_ancestor_count_from(leftmost_ancestor(node_index).node,
                              leftmost_ancestor(node_index).height, 0, node_index)

\* non_leaf_nodes_left: the sum of 2^h - 1 over the bits h set in leaf_index.
RECURSIVE non_leaf_nodes_left(_, _)
non_leaf_nodes_left(leaf_index, h) ==
    IF leaf_index = 0 THEN 0
    ELSE (IF leaf_index % 2 = 1 THEN 2 ^ h - 1 ELSE 0)
            + non_leaf_nodes_left(leaf_index \div 2, h + 1)

data_index_to_node_index(leaf_index) == leaf_index + non_leaf_nodes_left(leaf_index, 0) + 1

\* A digest of the model: five words that name it, element 0 first.
Digest(d) == [j \in 1..DIGEST_LENGTH |-> d * DIGEST_LENGTH + (j - 1)]

DigestOf(words) == words[1] \div DIGEST_LENGTH

HashModulus == 41

hash_pair(left, right) == (3 * left + 5 * right + 7) % HashModulus

\* The n top words of the stack, the top one first.
TopWords(st, n) == [j \in 1..n |-> st[Len(st) - (j - 1)]]

\* The words of a value as they lie on the stack when element 0 is on top.
OnStack(words) == [j \in 1..Len(words) |-> words[Len(words) - (j - 1)]]

list_pop(list_pointer, width, mem) ==
    LET len == ReadMem(mem, list_pointer)
        first == list_pointer + 1 + (len - 1) * width
    IN [value |-> [j \in 1..width |-> ReadMem(mem, first + (j - 1))],
        mem |-> WriteMem(mem, list_pointer, len - 1)]

\* The effect of a call of a snippet whose body is not listed here, as the
\* stack comments at its call sites state it.
CallImported(label, vm) ==
    LET st == vm.stack
        abort == [vm EXCEPT !.ok = FALSE]
        goes(stack) == [vm EXCEPT !.stack = stack, !.pc = @ + 1]
    IN CASE label = EqU64 ->
               goes(Replace(st, 4, << IF TopU64(st, 0) = TopU64(st, 2) THEN 1 ELSE 0 >>))
         [] label = LtU64 ->
               goes(Append(st, IF TopU64(st, 0) < TopU64(st, 2) THEN 1 ELSE 0))
         [] label = AndU64 ->
               goes(Replace(st, 4, AsU64(and_u64(TopU64(st, 0), TopU64(st, 2)))))
         [] label = AddU64 ->
               IF TopU64(st, 0) + TopU64(st, 2) >= U64Range THEN abort
               ELSE goes(Replace(st, 4, AsU64(TopU64(st, 0) + TopU64(st, 2))))
         [] label = IncrU64 ->
               IF TopU64(st, 0) + 1 >= U64Range THEN abort
               ELSE goes(Replace(st, 2, AsU64(TopU64(st, 0) + 1)))
         [] label = DecrU64 ->
               IF TopU64(st, 0) = 0 THEN abort
               ELSE goes(Replace(st, 2, AsU64(TopU64(st, 0) - 1)))
         [] label = Log2FloorU64 ->
               IF TopU64(st, 0) = 0 THEN abort
               ELSE goes(Replace(st, 2, << log_2_floor(TopU64(st, 0)) >>))
         [] label = Pow2U64 ->
               IF Top(st) >= 2 * WordBits THEN abort
               ELSE goes(Replace(st, 1, AsU64(2 ^ Top(st))))
         [] label = MmrLeftChild ->
               IF Top(st) >= 2 * WordBits \/ TopU64(st, 1) < 2 ^ Top(st) THEN abort
               ELSE goes(Replace(st, 3, AsU64(left_child(TopU64(st, 1), Top(st)))))
         [] label = MmrRightChild ->
               IF TopU64(st, 0) = 0 THEN abort
               ELSE goes(Replace(st, 2, AsU64(right_child(TopU64(st, 0)))))
         [] label = DataIndexToNodeIndex ->
               IF data_index_to_node_index(TopU64(st, 0)) >= U64Range THEN abort
               ELSE goes(Replace(st, 2, AsU64(data_index_to_node_index(TopU64(st, 0)))))
         [] label = MmrRightAncestorCountAndHeight ->
               IF TopU64(st, 0) = 0 THEN abort
               ELSE goes(Replace(st, 2,
                         << right_ancestor_count_and_own_height(TopU64(st, 0)).count,
                            right_ancestor_count_and_own_height(TopU64(st, 0)).height >>))
         [] label = ListPush ->
               [vm EXCEPT !.stack = Replace(st, DIGEST_LENGTH, << >>),
                          !.mem = list_push(st[Len(st) - DIGEST_LENGTH],
                                            TopWords(st, DIGEST_LENGTH), vm.mem),
                          !.pc = @ + 1]
         [] label = ListPop ->
               IF ReadMem(vm.mem, Top(st)) = 0 THEN abort
               ELSE [vm EXCEPT !.stack = Replace(st, 1,
                                   OnStack(list_pop(Top(st), DIGEST_LENGTH, vm.mem).value)),
                               !.mem = list_pop(Top(st), DIGEST_LENGTH, vm.mem).mem,
                               !.pc = @ + 1]
         [] label = SetLength ->
               [vm EXCEPT !.stack = Pop(st),
                          !.mem = WriteMem(vm.mem, st[Len(st) - 1], Top(st)),
                          !.pc = @ + 1]
         [] OTHER -> abort

Imported == {EqU64, LtU64, AndU64, AddU64, IncrU64, DecrU64, Log2FloorU64, Pow2U64,
             MmrLeftChild, MmrRightChild, DataIndexToNodeIndex,
             MmrRightAncestorCountAndHeight, ListPush, ListPop, SetLength}

\* One instruction of a program with loops: recurse jumps to the label the
\* innermost call went to; hash replaces the ten top words by the digest of
\* the two digests there and five zeros above it.
StepLinked(prog, vm) ==
    LET ins == prog[vm.pc]
        st == vm.stack
    IN CASE ins.op = "call" /\ ins.arg \in Imported -> CallImported(ins.arg, vm)
         [] ins.op = "call" ->
               [Step(prog, vm) EXCEPT !.dests = Append(vm.dests, LabelAt(prog, ins.arg))]
         [] ins.op = "return" -> [Step(prog, vm) EXCEPT !.dests = Pop(vm.dests)]
         [] ins.op = "recurse" -> [vm EXCEPT !.pc = Top(vm.dests)]
         [] ins.op = "hash" ->
               [vm EXCEPT !.stack =
                    Replace(st, 2 * DIGEST_LENGTH,
                        OnStack(Digest(hash_pair(
                            DigestOf(TopWords(st, DIGEST_LENGTH)),
                            DigestOf(TopWords(Replace(st, DIGEST_LENGTH, << >>),
                                              DIGEST_LENGTH)))))
                        \o [j \in 1..DIGEST_LENGTH |-> 0]),
                          !.pc = @ + 1]
         [] OTHER -> Step(prog, vm)

BootLinked(stack, mem) ==
    [stack |-> stack, mem |-> mem, ok |-> TRUE, pc |-> 1, jumps |-> <<>>,
     entered |-> <<>>, halted |-> FALSE, dests |-> <<>>]

Stopped(vm) == vm.halted \/ ~vm.ok

\* Execution up to the next arrival at one of the positions given, or to the
\* end of the run.
RECURSIVE RunOn(_, _, _)
RunOn(prog, vm, positions) ==
    IF Stopped(vm) \/ vm.pc \in positions THEN vm
    ELSE CHOOSE end \in {RunOn(prog, next, positions) : next \in {StepLinked(prog, vm)}} : TRUE

RunTo(prog, vm, positions) ==
    CHOOSE end \in {RunOn(prog, next, positions) : next \in {StepLinked(prog, vm)}} : TRUE

\* ------------------------------------------------------------ mmr/right_child_and_height.rs
RightChildAndHeightLoop == "tasm_mmr_right_child_and_height_loop"
RightChildAndHeightThen == "tasm_mmr_right_child_and_height_branch_then"
RightChildAndHeightElse == "tasm_mmr_right_child_and_height_branch_else"

MmrLeftMostAncestor_function_code ==
    << I("label", LeftMostAncestor),
       I("call", Log2FloorU64),
       I("dup", 0),
       I("push", 1), I("add", 0),
       I("call", Pow2U64),
       I("call", DecrU64),
       I("swap", 1), I("swap", 2),
       I("return", 0) >>

\* Mutant: the left branch does not clear is_r.
MmrRightChildAndHeight_branch_else_keeps_flag ==
    << I("label", RightChildAndHeightElse),
       I("pop", 0),
       I("swap", 4), I("pop", 0), I("swap", 4), I("pop", 0),
       I("pop", 0), I("pop", 0),
       I("return", 0) >>

MmrRightChildAndHeight_branch_else ==
    << I("label", RightChildAndHeightElse),
       I("swap", 8), I("pop", 0),
       I("swap", 4), I("pop", 0), I("swap", 4), I("pop", 0),
       I("pop", 0), I("pop", 0),
       I("return", 0) >>

MmrRightChildAndHeight_function_code ==
    << I("label", RightChildAndHeight),
       I("push", 0), I("dup", 2), I("dup", 2),
       I("call", LeftMostAncestor),
       I("swap", 2), I("swap", 1),
       I("call", RightChildAndHeightLoop),
       I("pop", 0), I("pop", 0), I("swap", 2), I("pop", 0), I("swap", 2), I("pop", 0),
       I("return", 0),
       I("label", RightChildAndHeightLoop),
       I("dup", 5), I("dup", 5), I("dup", 3), I("dup", 3),
       I("call", EqU64),
       I("skiz", 0), I("return", 0),
       I("dup", 1), I("dup", 1), I("dup", 4),
       I("call", MmrLeftChild),
       I("dup", 7), I("dup", 7),
       I("swap", 2), I("swap", 1), I("swap", 3), I("swap", 1),
       I("call", LtU64),
       I("push", 1), I("dup", 1),
       I("skiz", 0), I("call", RightChildAndHeightThen),
       I("skiz", 0), I("call", RightChildAndHeightElse),
       I("swap", 2), I("push", FieldP - 1), I("add", 0), I("swap", 2),
       I("recurse", 0),
       I("label", RightChildAndHeightThen),
       I("pop", 0), I("swap", 8), I("pop", 0),
       I("pop", 0), I("pop", 0), I("pop", 0), I("pop", 0),
       I("call", MmrRightChild),
       I("push", 0),
       I("return", 0) >>
        \o MmrRightChildAndHeight_branch_else

RightChildAndHeightProgram ==
    link_for_isolated_run(RightChildAndHeight, MmrRightChildAndHeight_function_code,
                          MmrLeftMostAncestor_function_code)

\* The node indices below 2^63: the high bit of a u64 is clear.
NodeIndices == 1 .. (U64Range \div 2 - 1)

InitDescent ==
    /\ snippet = Declared([id |-> RightChildAndHeight, T |-> "none"])
    /\ \E node_index \in NodeIndices :
         init_stack = [i \in 1..DIGEST_LENGTH |-> 0] \o AsU64(node_index)
    /\ tasm = BootLinked(init_stack, EmptyMemory)
    /\ memory = EmptyMemory
    /\ seed = 0
    /\ std_in = <<>>
    /\ calls = <<>>
    /\ vm_status = "running"
    /\ expected = <<"None">>
    /\ rust = NoState
    /\ verdict = "none"
    /\ verdict_dep = "none"
    /\ oracle_pc = "idle"
    /\ verifications = <<>>
    /\ clones = <<>>
    /\ IdleLib

\* The run up to its next arrival at the head of the loop, or to its end.
\* At the head the stack is _ ni_hi ni_lo is_r height c_hi c_lo.
DescentStep ==
    /\ vm_status = "running"
    /\ \E vm \in {RunTo(RightChildAndHeightProgram, tasm,
                        {LabelAt(RightChildAndHeightProgram, RightChildAndHeightLoop)})} :
          /\ tasm' = vm
          /\ vm_status' = IF vm.halted THEN "halted" ELSE IF vm.ok THEN "running" ELSE "aborted"
          /\ calls' = IF Stopped(vm) THEN calls
                      ELSE Append(calls, [is_r |-> vm.stack[Len(vm.stack) - 3],
                                          height |-> vm.stack[Len(vm.stack) - 2],
                                          candidate |-> TopU64(vm.stack, 0),
                                          depth |-> Len(vm.stack)])
    /\ UNCHANGED <<memory, seed, std_in, libVars, snippet, init_stack, expected, rust,
                   verdict, verdict_dep, oracle_pc, verifications, clones>>

NextDescent == DescentStep

SpecDescent == InitDescent /\ [][NextDescent]_vars /\ WF_vars(DescentStep)

\* The height of a node of a Merkle mountain range: the leftmost nodes 2^k - 1
\* have height k - 1, and a node past one has the height of its distance.
RECURSIVE NodeHeight(_)
NodeHeight(node_index) ==
    IF node_index = leftmost_ancestor(node_index).node
    THEN leftmost_ancestor(node_index).height
    ELSE NodeHeight(node_index - (2 ^ log_2_floor(node_index + 1) - 1))

\* A right child is followed by its parent.
IsRightChild(node_index) == NodeHeight(node_index + 1) = NodeHeight(node_index) + 1

DescentInvariant ==
    LET ni == TopU64(init_stack, 0) IN
    /\ vm_status # "aborted"
    /\ \A k \in 1..Len(calls) :
          /\ calls[k].height < 2 * WordBits
          /\ calls[k].height = calls[1].height - (k - 1)
          /\ calls[k].depth = Len(init_stack) + 4
          /\ calls[k].candidate >= ni
          /\ NodeHeight(calls[k].candidate) = calls[k].height
    /\ calls # <<>> =>
          /\ calls[1].candidate = leftmost_ancestor(ni).node
          /\ calls[1].height = leftmost_ancestor(ni).height
          /\ calls[1].is_r = 0
    /\ vm_status = "halted" =>
          /\ calls[Len(calls)].candidate = ni
          /\ Len(tasm.stack) = Len(init_stack)
          /\ SubSeq(tasm.stack, 1, DIGEST_LENGTH) = SubSeq(init_stack, 1, DIGEST_LENGTH)
          /\ Top(tasm.stack) = NodeHeight(ni)
          /\ Top(tasm.stack) = calls[Len(calls)].height
          /\ tasm.stack[Len(tasm.stack) - 1] = (IF IsRightChild(ni) THEN 1 ELSE 0)
          /\ tasm.stack[Len(tasm.stack) - 1] =
                (IF Len(calls) >= 2
                    /\ calls[Len(calls)].candidate = right_child(calls[Len(calls) - 1].candidate)
                 THEN 1 ELSE 0)
          /\ ni = leftmost_ancestor(ni).node => tasm.stack[Len(tasm.stack) - 1] = 0

\* C24: for every node index ni with 1 <= ni < 2^63 the descent of
\* MmrRightChildAndHeight, begun at the leftmost ancestor of ni, lowers the
\* height by one per step, never below 0, and ends with the candidate equal to
\* ni; the snippet returns is_right_child = 1 exactly when the last step went
\* to a right child (0 when ni is a leftmost ancestor) and the height of ni,
\* with the stack as high as it was.
C24_DescentTerminates == []DescentInvariant /\ <>(vm_status = "halted")

\* Node 5, the right child of node 6: the descent goes 7, 6, 5 with heights
\* 2, 1, 0 and returns (1, 0).
C24_Witness ==
    /\ vm_status = "halted"
    /\ TopU64(init_stack, 0) = 5
    /\ Len(calls) = 3
    /\ calls[1].candidate = 7 /\ calls[2].candidate = 6 /\ calls[3].candidate = 5
    /\ calls[3].height = 0
    /\ tasm.stack = [i \in 1..DIGEST_LENGTH |-> 0] \o << 1, 0 >>

\* ------------------------------------------------------------ mmr/non_leaf_nodes_left.rs
NonLeafNodesLeftWhile == "non_leaf_nodes_left_while"
NonLeafNodesLeftIfThen == "non_leaf_nodes_left_if_then"

\* Mutant: the branch adds 2^h instead of 2^h - 1.
MmrNonLeafNodesLeftUsingAnd_if_then_without_decr ==
    << I("label", NonLeafNodesLeftIfThen),
       I("call", AddU64),
       I("push", 0), I("push", 0),
       I("return", 0) >>

\* Start/end stack: _ di_hi di_lo log2_floor h ret_hi ret_lo pow_hi pow_lo
MmrNonLeafNodesLeftUsingAnd_if_then ==
    << I("label", NonLeafNodesLeftIfThen),
       I("call", DecrU64),
       I("call", AddU64),
       I("push", 0), I("push", 0),
       I("return", 0) >>

\* BEFORE: _ leaf_index_hi leaf_index_lo
\* AFTER: _ node_count_hi node_count_lo
MmrNonLeafNodesLeftUsingAnd_function_body ==
    << I("label", NonLeafNodesLeftId),
       I("dup", 1), I("dup", 1), I("push", 0), I("push", 0), I("call", EqU64),
       I("skiz", 0), I("return", 0),
       I("dup", 1), I("dup", 1),
       I("call", Log2FloorU64),
       I("call", IncrU64),
       I("push", 0),
       I("push", 0), I("push", 0),
       I("call", NonLeafNodesLeftWhile),
       I("swap", 4), I("pop", 0),
       I("swap", 4), I("pop", 0),
       I("pop", 0), I("pop", 0),
       I("return", 0),
       I("label", NonLeafNodesLeftWhile),
       I("dup", 3), I("dup", 3), I("eq", 0),
       I("skiz", 0), I("return", 0),
       I("dup", 2),
       I("call", Pow2U64),
       I("dup", 1), I("dup", 1),
       I("dup", 9), I("dup", 9),
       I("call", AndU64),
       I("push", 0), I("push", 0),
       I("call", EqU64),
       I("push", 0),
       I("eq", 0),
       I("skiz", 0), I("call", NonLeafNodesLeftIfThen),
       I("pop", 0), I("pop", 0),
       I("swap", 2), I("push", 1), I("add", 0), I("swap", 2),
       I("recurse", 0) >>
        \o MmrNonLeafNodesLeftUsingAnd_if_then

NonLeafNodesLeftProgram ==
    link_for_isolated_run(NonLeafNodesLeftId, MmrNonLeafNodesLeftUsingAnd_function_body, <<>>)

LeafIndices == 0 .. (U64Range - 1)

InitNonLeaf ==
    /\ snippet = Declared([id |-> NonLeafNodesLeftId, T |-> "none"])
    /\ \E leaf_index \in LeafIndices :
         init_stack = [i \in 1..DIGEST_LENGTH |-> 0] \o AsU64(leaf_index)
    /\ tasm = BootLinked(init_stack, EmptyMemory)
    /\ memory = EmptyMemory
    /\ seed = 0
    /\ std_in = <<>>
    /\ calls = <<>>
    /\ vm_status = "running"
    /\ expected = <<"None">>
    /\ rust = NoState
    /\ verdict = "none"
    /\ verdict_dep = "none"
    /\ oracle_pc = "idle"
    /\ verifications = <<>>
    /\ clones = <<>>
    /\ IdleLib

\* The run up to its next arrival at the head of the loop, or to its end.
\* At the head the stack is _ di_hi di_lo log2_floor h ret_hi ret_lo.
NonLeafStep ==
    /\ vm_status = "running"
    /\ \E vm \in {RunTo(NonLeafNodesLeftProgram, tasm,
                        {LabelAt(NonLeafNodesLeftProgram, NonLeafNodesLeftWhile)})} :
          /\ tasm' = vm
          /\ vm_status' = IF vm.halted THEN "halted" ELSE IF vm.ok THEN "running" ELSE "aborted"
          /\ calls' = IF Stopped(vm) THEN calls
                      ELSE Append(calls, [bound |-> vm.stack[Len(vm.stack) - 3],
                                          h |-> vm.stack[Len(vm.stack) - 2],
                                          ret |-> TopU64(vm.stack, 0),
                                          depth |-> Len(vm.stack),
                                          taken |-> Len(SelectSeq(vm.entered,
                                                LAMBDA l : l = NonLeafNodesLeftIfThen))])
    /\ UNCHANGED <<memory, seed, std_in, libVars, snippet, init_stack, expected, rust,
                   verdict, verdict_dep, oracle_pc, verifications, clones>>

NextNonLeaf == NonLeafStep

SpecNonLeaf == InitNonLeaf /\ [][NextNonLeaf]_vars /\ WF_vars(NonLeafStep)

BitSet(value, h) == (value \div 2 ^ h) % 2 = 1

\* The sum of 2^h - 1 over the bits h < bits set in value.
RECURSIVE SumOverSetBits(_, _)
SumOverSetBits(value, bits) ==
    IF bits = 0 THEN 0
    ELSE (IF BitSet(value, bits - 1) THEN 2 ^ (bits - 1) - 1 ELSE 0)
            + SumOverSetBits(value, bits - 1)

NonLeafInvariant ==
    LET leaf_index == TopU64(init_stack, 0) IN
    /\ vm_status # "aborted"
    /\ leaf_index = 0 => calls = <<>>
    /\ \A k \in 1..Len(calls) :
          /\ calls[k].h = k - 1
          /\ calls[k].bound = log_2_floor(leaf_index) + 1
          /\ calls[k].h <= calls[k].bound
          /\ calls[k].depth = Len(init_stack) + 4
          /\ calls[k].ret = SumOverSetBits(leaf_index, k - 1)
          /\ k > 1 => calls[k].taken - calls[k - 1].taken
                          = (IF BitSet(leaf_index, k - 2) THEN 1 ELSE 0)
    /\ vm_status = "halted" =>
          /\ Len(tasm.stack) = Len(init_stack)
          /\ SubSeq(tasm.stack, 1, DIGEST_LENGTH) = SubSeq(init_stack, 1, DIGEST_LENGTH)
          /\ TopU64(tasm.stack, 0) = SumOverSetBits(leaf_index, 2 * WordBits)
          /\ TopU64(tasm.stack, 0) = non_leaf_nodes_left(leaf_index, 0)
          /\ leaf_index # 0 => Len(calls) - 1 = log_2_floor(leaf_index) + 1

\* C25: for every 64-bit leaf_index MmrNonLeafNodesLeftUsingAnd returns the sum
\* of 2^h - 1 over the bit positions h set in leaf_index, and 0 for leaf_index
\* 0 without entering the loop; the loop body runs floor(log2(leaf_index)) + 1
\* times, and the stack is as high at every head of the loop whether or not the
\* branch for a set bit was taken.
C25_SumOverSetBits == []NonLeafInvariant /\ <>(vm_status = "halted")

\* leaf_index 6: bits 1 and 2 are set, the loop body runs three times, the
\* branch is taken twice and the result is 1 + 3 = 4.
C25_Witness ==
    /\ vm_status = "halted"
    /\ snippet.id = NonLeafNodesLeftId
    /\ TopU64(init_stack, 0) = 6
    /\ Len(calls) = 4
    /\ calls[4].taken = 2
    /\ tasm.stack = [i \in 1..DIGEST_LENGTH |-> 0] \o << 0, 4 >>

\* leaf_index 0 comes back at once.
C25_WitnessZero ==
    /\ vm_status = "halted"
    /\ snippet.id = NonLeafNodesLeftId
    /\ TopU64(init_stack, 0) = 0
    /\ calls = <<>>
    /\ tasm.stack = init_stack

\* ------------------------------------------------------------ mmr/calculate_new_peaks_from_append.rs: the loop
CalculateNewPeaksFromAppendWhile == "calculate_new_peaks_from_append_while"

\* Mutant: the previous peak goes to the authentication path twice.
CalculateNewPeaksFromAppend_update_auth_path_twice ==
    << I("dup", 11),
       I("dup", 5), I("dup", 5), I("dup", 5), I("dup", 5), I("dup", 5),
       I("call", ListPush),
       I("dup", 5), I("dup", 5), I("dup", 5), I("dup", 5), I("dup", 5),
       I("call", ListPush),
       I("pop", 0) >>

\* Update authentication path with latest previous_peak
CalculateNewPeaksFromAppend_update_auth_path ==
    << I("dup", 11),
       I("dup", 5), I("dup", 5), I("dup", 5), I("dup", 5), I("dup", 5),
       I("call", ListPush),
       I("pop", 0) >>

\* Mutant: the newer peak is pushed back unhashed.
CalculateNewPeaksFromAppend_merge_without_hash ==
    << I("pop", 0), I("pop", 0), I("pop", 0), I("pop", 0), I("pop", 0),
       I("call", ListPush) >>

\* hash; pop x 5; call {push}: the two peaks on the stack become their parent.
CalculateNewPeaksFromAppend_merge ==
    << I("hash", 0),
       I("pop", 0), I("pop", 0), I("pop", 0), I("pop", 0), I("pop", 0),
       I("call", ListPush) >>

\* BEFORE: _ old_leaf_count_hi old_leaf_count_lo *peaks [digests (new_leaf)]
\* AFTER: _ *new_peaks *auth_path
CalculateNewPeaksFromAppend_function_body(auth_path_pointer) ==
    << I("label", CalculateNewPeaksFromAppend),
       I("call", ListPush),
       I("push", auth_path_pointer),
       I("push", 0),
       I("call", SetLength),
       I("swap", 1),
       I("dup", 3), I("dup", 3),
       I("call", DataIndexToNodeIndex),
       I("call", MmrRightAncestorCountAndHeight),
       I("pop", 0),
       I("call", CalculateNewPeaksFromAppendWhile),
       I("pop", 0),
       I("swap", 3), I("pop", 0), I("swap", 1), I("pop", 0),
       I("return", 0),
       I("label", CalculateNewPeaksFromAppendWhile),
       I("dup", 0),
       I("push", 0),
       I("eq", 0),
       I("skiz", 0),
       I("return", 0),
       I("swap", 2), I("swap", 1),
       I("dup", 0),
       I("call", ListPop),
       I("dup", 5),
       I("call", ListPop) >>
        \o CalculateNewPeaksFromAppend_update_auth_path
        \o CalculateNewPeaksFromAppend_merge
        \o << I("swap", 1), I("swap", 2),
              I("push", FieldP - 1),
              I("add", 0),
              I("recurse", 0) >>

\* The program of the test: 65 words are allocated when the code is
\* generated, so the authentication path lies at address 65.
AppendProgram ==
    link_for_isolated_run(CalculateNewPeaksFromAppend,
                          CalculateNewPeaksFromAppend_function_body(TestPreallocated), <<>>)

\* We assume that the peaks can safely be stored in memory on address 0
PeaksPointer == 0

RECURSIVE PopCount(_)
PopCount(value) == IF value = 0 THEN 0 ELSE (value % 2) + PopCount(value \div 2)

\* The peaks of an accumulator of leaf_count leaves: one per set bit; the
\* k-th of them is given the digest k.
PeaksOf(leaf_count) == [k \in 1..PopCount(leaf_count) |-> Digest(k)]

NewLeaves == {Digest(HashModulus + 1), Digest(HashModulus + 2)}

InitAppend ==
    /\ snippet = Declared([id |-> CalculateNewPeaksFromAppend, T |-> "none"])
    /\ \E old_leaf_count \in LeafIndices, new_leaf \in NewLeaves :
         init_stack = [i \in 1..DIGEST_LENGTH |-> 0] \o AsU64(old_leaf_count)
                        \o << PeaksPointer >> \o OnStack(new_leaf)
    /\ memory = PushAll(PeaksPointer, PeaksOf(TopU64(init_stack, DIGEST_LENGTH + 1)),
                        list_new(PeaksPointer, EmptyMemory))
    /\ tasm = BootLinked(init_stack, memory)
    /\ seed = TestPreallocated
    /\ std_in = <<>>
    /\ calls = <<>>
    /\ vm_status = "running"
    /\ expected = <<"None">>
    /\ rust = NoState
    /\ verdict = "none"
    /\ verdict_dep = "none"
    /\ oracle_pc = "idle"
    /\ verifications = <<>>
    /\ clones = <<>>
    /\ IdleLib

\* The digests of the list at the pointer, the oldest first.
ListOf(list_pointer, mem) ==
    [k \in 1..ReadMem(mem, list_pointer) |->
        [j \in 1..DIGEST_LENGTH |->
            ReadMem(mem, list_pointer + 1 + (k - 1) * DIGEST_LENGTH + (j - 1))]]

\* The run up to its next arrival at the head of the loop, or to its end.
\* At the head the stack is _ old_leaf_count_hi old_leaf_count_lo *auth_path *peaks rac.
AppendStep ==
    /\ vm_status = "running"
    /\ \E vm \in {RunTo(AppendProgram, tasm,
                        {LabelAt(AppendProgram, CalculateNewPeaksFromAppendWhile)})} :
          /\ tasm' = vm
          /\ vm_status' = IF vm.halted THEN "halted" ELSE IF vm.ok THEN "running" ELSE "aborted"
          /\ calls' = IF Stopped(vm) THEN calls
                      ELSE Append(calls, [rac |-> Top(vm.stack),
                                          depth |-> Len(vm.stack),
                                          peaks |-> ListOf(PeaksPointer, vm.mem),
                                          auth_path |-> ListOf(TestPreallocated, vm.mem)])
    /\ UNCHANGED <<memory, seed, std_in, libVars, snippet, init_stack, expected, rust,
                   verdict, verdict_dep, oracle_pc, verifications, clones>>

NextAppend == AppendStep

SpecAppend == InitAppend /\ [][NextAppend]_vars /\ WF_vars(AppendStep)

RECURSIVE TrailingOnes(_)
TrailingOnes(value) == IF value % 2 = 0 THEN 0 ELSE 1 + TrailingOnes(value \div 2)

\* The append of an accumulator: the new leaf becomes the last peak, and
\* while the leaf count is odd the two last peaks are replaced by their
\* parent, the older of them going to the authentication path.
RECURSIVE AccumulatorAppend(_, _, _)
AccumulatorAppend(peaks, auth_path, leaf_count) ==
    IF leaf_count % 2 = 0 THEN [peaks |-> peaks, auth_path |-> auth_path]
    ELSE LET older == peaks[Len(peaks) - 1]
             newer == peaks[Len(peaks)]
         IN AccumulatorAppend(
                Append(SubSeq(peaks, 1, Len(peaks) - 2),
                       Digest(hash_pair(DigestOf(older), DigestOf(newer)))),
                Append(auth_path, older),
                leaf_count \div 2)

OldLeafCount == TopU64(init_stack, DIGEST_LENGTH + 1)

AppendInvariant ==
    LET t == TrailingOnes(OldLeafCount)
        appended == AccumulatorAppend(Append(PeaksOf(OldLeafCount), TopWords(init_stack, DIGEST_LENGTH)),
                                      <<>>, OldLeafCount)
    IN
    /\ vm_status = "aborted" => data_index_to_node_index(OldLeafCount) >= U64Range
    /\ \A k \in 1..Len(calls) :
          /\ calls[k].rac = t - (k - 1)
          /\ calls[k].depth = Len(init_stack) - 3
          /\ Len(calls[k].peaks) = PopCount(OldLeafCount) + 1 - (k - 1)
          /\ Len(calls[k].auth_path) = k - 1
          /\ k > 1 =>
                LET before == calls[k - 1].peaks
                    older == before[Len(before) - 1]
                    newer == before[Len(before)]
                IN /\ calls[k].auth_path = Append(calls[k - 1].auth_path, older)
                   /\ calls[k].peaks =
                         Append(SubSeq(before, 1, Len(before) - 2),
                                Digest(hash_pair(DigestOf(older), DigestOf(newer))))
    /\ calls # <<>> =>
          /\ calls[1].peaks = Append(PeaksOf(OldLeafCount), TopWords(init_stack, DIGEST_LENGTH))
          /\ calls[1].auth_path = <<>>
    /\ vm_status = "halted" =>
          /\ Len(calls) = t + 1
          /\ tasm.stack = [i \in 1..DIGEST_LENGTH |-> 0] \o << PeaksPointer, TestPreallocated >>
          /\ Len(tasm.stack) = Len(init_stack) - 6
          /\ Len(ListOf(PeaksPointer, tasm.mem)) = PopCount(OldLeafCount) + 1 - t
          /\ ListOf(PeaksPointer, tasm.mem) = appended.peaks
          /\ Len(ListOf(TestPreallocated, tasm.mem)) = t
          /\ ListOf(TestPreallocated, tasm.mem) = appended.auth_path
          /\ Len(ListOf(PeaksPointer, tasm.mem)) = PopCount(OldLeafCount + 1)

LeafCountBits == 2 * WordBits

\* The words of the region reserved by kmalloc(DIGEST_LENGTH * MAX_MMR_HEIGHT).
AuthPathRegion(bits) == TestPreallocated .. (TestPreallocated + DIGEST_LENGTH * bits - 1)

\* C29: the region of DIGEST_LENGTH * MAX_MMR_HEIGHT words reserved for the
\* authentication path holds the whole list: in every run that completes, and
\* at every moment of it, the length word and the 5 words of every pushed
\* digest lie inside the region, whose size is 5 words per bit of a leaf count.
C29_AuthPathInsideRegion ==
    /\ LeafCountBits <= MAX_MMR_HEIGHT
    /\ vm_status # "aborted" =>
          \A a \in DOMAIN tasm.mem :
              a >= TestPreallocated =>
                  /\ a \in AuthPathRegion(LeafCountBits)
                  /\ a \in AuthPathRegion(MAX_MMR_HEIGHT)

\* The longest path: old_leaf_count with all bits but the highest set.
C29_Witness ==
    /\ vm_status = "halted"
    /\ snippet.id = CalculateNewPeaksFromAppend
    /\ OldLeafCount = U64Range \div 2 - 1
    /\ Len(ListOf(TestPreallocated, tasm.mem)) = LeafCountBits - 1
    /\ TestPreallocated + DIGEST_LENGTH * (LeafCountBits - 1) \in DOMAIN tasm.mem

\* ------------------------------------------------------------ test_helpers.rs: static and dynamic memory of one linked program
\* link_and_run_tasm_for_test with words_statically_allocated: the Library
\* that links the program starts its cursor there, and the run starts with
\* the allocator cell seeded with the same number.
InitLinkedRun ==
    /\ seed \in {0, 1, MaxStaticWords}
    /\ lib_seed = seed
    /\ free_pointer = with_preallocated_memory(seed)
    /\ import_table = [a \in {} |-> ""]
    /\ bodies = <<>>
    /\ gen_stack = <<>>
    /\ returned = <<>>
    /\ granted = <<>>
    /\ requests_made = 0
    /\ body_code = [a \in {} |-> <<>>]
    /\ program = <<>>
    /\ memory = EmptyMemory
    /\ std_in = <<>>
    /\ calls = <<>>
    /\ vm_status = "idle"
    /\ IdleOracle

\* While the program is linked, a code generator asks for static memory.
LinkKmalloc(words) ==
    /\ vm_status = "idle"
    /\ requests_made < MaxRequests
    /\ requests_made' = requests_made + 1
    /\ kmalloc(words, "link")
    /\ UNCHANGED <<import_table, bodies, gen_stack, returned, lib_seed, body_code, program,
                   mallocVars, oracleVars>>

\* execute_test with Some(words_statically_allocated): the run begins with
\* the initialization code of the allocator.
StartRun ==
    /\ vm_status = "idle"
    /\ memory' = Run(get_initialization_code(seed), 1,
                     [stack |-> <<>>, mem |-> memory, ok |-> TRUE]).mem
    /\ vm_status' = "running"
    /\ UNCHANGED <<seed, std_in, calls, libVars, oracleVars>>

NextLinkedRun ==
    \/ \E words \in StaticSizes : LinkKmalloc(words)
    \/ StartRun
    \/ \E size \in LaterSizes : Allocate(size)

SpecLinkedRun == InitLinkedRun /\ [][NextLinkedRun]_vars

StaticRange(grant) == grant.addr .. (grant.addr + grant.words - 1)

\* C27: in a program linked and run with N words declared statically
\* allocated, no address returned by the dynamic allocator at run time lies
\* inside a range granted by allocate_static while the program was linked.
C27_DynamicOutsideStatic ==
    \A k \in 1..Len(calls), g \in 1..Len(granted) :
        calls[k].ok => calls[k].base \notin StaticRange(granted[g])

\* What the seeding does give: the dynamic addresses lie at or above the N
\* words declared, and not at address 0.
C27_DynamicAboveDeclared ==
    \A k \in 1..Len(calls) :
        calls[k].ok => calls[k].base >= seed /\ calls[k].base >= 1

\* N words declared, a word granted at N during linking, and the first
\* dynamic allocation of the run returns N.
C27_Overlap ==
    /\ seed = MaxStaticWords
    /\ granted # <<>>
    /\ granted[1].addr = seed
    /\ granted[1].words = 1
    /\ calls # <<>>
    /\ calls[1].ok
    /\ calls[1].base = seed

\* ------------------------------------------------------------ test_helpers.rs: the allocator cell at the start of both executions
\* allocate memory, if necessary
allocate_if_necessary(mem, words_statically_allocated) ==
    IF words_statically_allocated > 0 /\ DYN_MALLOC_ADDRESS \notin DOMAIN mem
    THEN rust_dyn_malloc_initialize(mem, words_statically_allocated)
    ELSE mem

\* Mutant: the allocator cell of the memory is not consulted.
words_for_linking_as_declared(mem, words_statically_allocated) == words_statically_allocated

\* link_and_run_tasm_for_test: the allocator cell of the memory, when there
\* is one, replaces the number of words declared.
words_for_linking(mem, words_statically_allocated) ==
    IF DYN_MALLOC_ADDRESS \in DOMAIN mem THEN mem[DYN_MALLOC_ADDRESS]
    ELSE words_statically_allocated

\* The memories a test supplies: with or without an allocator cell, and with
\* or without a word elsewhere.
SuppliedMemories ==
    {cell @@ other : cell \in {EmptyMemory} \cup {(DYN_MALLOC_ADDRESS :> v) : v \in 0..(U32Range - 1)},
                     other \in {EmptyMemory, (OtherAddress :> 1)}}

InitSeeding ==
    /\ snippet = Declared([id |-> DynMallocId, T |-> "none"])
    /\ memory \in SuppliedMemories
    /\ seed \in 0 .. MaxStaticWords
    /\ \E size \in {0, 1} : init_stack = [i \in 1..DIGEST_LENGTH |-> 0] \o << size >>
    /\ std_in = <<>>
    /\ calls = <<>>
    /\ vm_status = "idle"
    /\ expected = <<"None">>
    /\ rust = NoState
    /\ tasm = NoState
    /\ verdict = "none"
    /\ verdict_dep = "none"
    /\ oracle_pc = "start"
    /\ verifications = <<>>
    /\ clones = <<>>
    /\ IdleLib

\* rust_final_state: the memory is cloned, the cell seeded if necessary, and
\* the reference implementation run.
RustFinalState ==
    /\ oracle_pc \in {"start", "tasm"}
    /\ LET rust_memory == allocate_if_necessary(memory, seed)
           r == DynMalloc_rust_shadowing(init_stack, rust_memory)
       IN /\ rust' = FinalState(r.stack, r.mem)
          /\ calls' = Append(calls, [side |-> "rust", start |-> rust_memory, ok |-> r.ok])
    /\ oracle_pc' = IF oracle_pc = "start" THEN "rust" ELSE "done"
    /\ UNCHANGED <<memory, seed, std_in, vm_status, libVars, snippet, init_stack, expected,
                   tasm, verdict, verdict_dep, verifications, clones>>

\* tasm_final_state: the memory is cloned, the cell seeded if necessary, the
\* program linked by a Library created for the words found, and the run
\* begun with the initialization code for that number.
TasmFinalState ==
    /\ oracle_pc \in {"start", "rust"}
    /\ LET tasm_memory == allocate_if_necessary(memory, seed)
           words == words_for_linking(tasm_memory, seed)
           begun == Run(get_initialization_code(words), 1,
                        [stack |-> init_stack, mem |-> tasm_memory, ok |-> TRUE])
           t == tasm_run(init_stack, tasm_memory, words)
       IN /\ lib_seed' = words
          /\ free_pointer' = with_preallocated_memory(words)
          /\ program' = link_for_isolated_run(DynMallocId,
                            Labelled(DynMallocId, DynMalloc_function_code), <<>>)
          /\ tasm' = FinalState(t.stack, t.mem)
          /\ calls' = Append(calls, [side |-> "tasm", start |-> begun.mem, ok |-> t.ok])
    /\ oracle_pc' = IF oracle_pc = "start" THEN "tasm" ELSE "done"
    /\ UNCHANGED <<memory, seed, std_in, vm_status, import_table, bodies, gen_stack, returned,
                   granted, requests_made, body_code, snippet, init_stack, expected,
                   rust, verdict, verdict_dep, verifications, clones>>

NextSeeding == RustFinalState \/ TasmFinalState

SpecSeeding == InitSeeding /\ [][NextSeeding]_vars

\* The allocator cell both executions are to start with: <<>> when unset.
SeedOf(mem, words_statically_allocated) ==
    IF DYN_MALLOC_ADDRESS \in DOMAIN mem THEN << mem[DYN_MALLOC_ADDRESS] >>
    ELSE IF words_statically_allocated > 0 THEN << words_statically_allocated >>
    ELSE << >>

CellOf(mem) == IF DYN_MALLOC_ADDRESS \in DOMAIN mem THEN << mem[DYN_MALLOC_ADDRESS] >> ELSE << >>

\* C30: in the current oracle the reference execution and the execution on
\* the virtual machine start with the same allocator cell, and the Library
\* that links the program is created for the same number: the value at
\* address 0 of the supplied memory when there is one, whatever the number of
\* words declared, otherwise the number of words declared, the cell being
\* left unset when that is 0.
C30_SameSeed ==
    /\ \A k \in 1..Len(calls) :
          /\ CellOf(calls[k].start) = SeedOf(memory, seed)
          /\ \A a \in (DOMAIN calls[k].start) \cup (DOMAIN memory) :
                a # DYN_MALLOC_ADDRESS =>
                    a \in DOMAIN calls[k].start /\ a \in DOMAIN memory
                        /\ calls[k].start[a] = memory[a]
    /\ (\E k \in 1..Len(calls) : calls[k].side = "tasm") =>
          /\ lib_seed = (IF SeedOf(memory, seed) = << >> THEN 0 ELSE SeedOf(memory, seed)[1])
          /\ free_pointer = lib_seed
    /\ oracle_pc = "done" =>
          /\ calls[1].start = calls[2].start
          /\ calls[1].ok = calls[2].ok
          /\ calls[1].ok => rust.final_stack = tasm.final_stack /\ rust.final_ram = tasm.final_ram

\* The supplied memory holds 2 in the cell while MaxStaticWords words are
\* declared: both executions start with 2 and the Library with 2.
C30_Witness ==
    /\ oracle_pc = "done"
    /\ snippet.id = DynMallocId
    /\ DYN_MALLOC_ADDRESS \in DOMAIN memory
    /\ memory[DYN_MALLOC_ADDRESS] = 2
    /\ seed = MaxStaticWords
    /\ lib_seed = 2
    /\ calls[1].start[DYN_MALLOC_ADDRESS] = 2
    /\ calls[2].start[DYN_MALLOC_ADDRESS] = 2

====
